---------------------------- MODULE Spec2Model ----------------------------
(***************************************************************************)
(* Peripheral-control node of the spherical robot (ESP32 firmware):        *)
(* serial frame parser, CRC check, command dispatcher, motor controller    *)
(* with timed auto-stop, display buffer, and the cooperative poll loop.    *)
(*                                                                         *)
(* Bytes and characters are their ASCII codes; text is a sequence of       *)
(* codes.  A response is a record [status, msg] where msg is the tuple of  *)
(* the format's name and the values printed into it.                       *)
(***************************************************************************)
EXTENDS Integers, Sequences, FiniteSets, TLC

VARIABLES
    \* ---- UART
    wire,                \* bytes the host has written that are still on the line
    rx,                  \* bytes waiting in the Serial receive buffer
    \* ---- parser globals
    cmdBuffer, cmdIndex, dataBuffer, dataIndex, expectedDataLength, receivingData,
    \* ---- motor globals and PWM outputs
    ledc,                \* PWM duty last written to each motor pin
    motorsRunning, motorStopTime,
    \* ---- display globals
    imageBuffer, bufferIndex, bufferReady,
    epdSleeping,         \* the panel is in its deep sleep mode
    \* ---- device
    now,                 \* millis(): 32-bit millisecond clock
    power,               \* "on" | "sleep" (esp_deep_sleep_start was called)
                         \* | "fault" (a write outside an array has happened)
    pc,                  \* position of loop(): "parse" | "check" | "delay";
                         \* in SpecReceive the call made last: "receive" |
                         \* "reset"
    \* ---- observation of the last frame that reached processCommand
    tx,                  \* responses written in this iteration of loop()
    called,              \* handlers entered in this iteration of loop()
    lastFrame,           \* what processCommand was called with, and what came of it
    hw,                  \* hardware operations of this iteration of loop(), in
                         \* order: panel operations, PWM writes, serial writes
    frames,              \* processCommand calls in this iteration of loop()
    \* ---- harness of the pure-function specifications
    sent,                \* the frame the host wrote last
    crcIn, crcOut,       \* argument and result of calculateCRC (SpecCrc)
    chunk                \* bytes given to the last ImageBuffer_Receive call
                         \* (SpecReceive)

vars == << wire, rx, cmdBuffer, cmdIndex, dataBuffer, dataIndex,
           expectedDataLength, receivingData, ledc, motorsRunning,
           motorStopTime, imageBuffer, bufferIndex, bufferReady, epdSleeping,
           now, power, pc, tx, called, lastFrame, hw, frames, sent, crcIn,
           crcOut, chunk >>

-----------------------------------------------------------------------------
(* Program constants *)

MOTOR_A1 == 18
MOTOR_A2 == 19
MOTOR_B1 == 5
MOTOR_B2 == 17
CRC_POLYNOMIAL == 4129          \* 0x1021
CMD_TIMEOUT_MS == 5000
CMD_BUFFER_SIZE == 16           \* char cmdBuffer[16]
MVEL_LENGTH == 6
Word16 == 65536                 \* uint16_t: 2^16
NL == 10                        \* '\n'

(* Bounds of the model *)

ClockMod == 8192                \* stands for 2^32, the range of unsigned long
                                \* millis(); the checker's integers are 32-bit
IMAGE_BUFFER_SIZE == 2          \* stands for 15000 (400*300/8), scaled down
MAX_COMMAND_SIZE == 8           \* stands for 15050, the size of dataBuffer
MaxTime == 3                    \* Delay stops advancing the clock beyond this
MaxStep == 2                    \* longest ordinary pause between two iterations
WrapMargin == 3                 \* the clock is also followed from this many
                                \* milliseconds before it wraps around
MaxCrcLen == 3                  \* longest payload of SpecCrc
MaxPayloadLen == 2              \* longest payload of newlines and digits in
                                \* SpecCodec
MaxPolls == 1                   \* most polls at which one wait for the panel
                                \* finds it busy, when it becomes idle at all

MotorPins == {MOTOR_A1, MOTOR_A2, MOTOR_B1, MOTOR_B2}

\* Command names as the dispatcher spells them.
MVEL    == <<77, 86, 69, 76>>
MSTOP   == <<77, 83, 84, 79, 80>>
DIMG    == <<68, 73, 77, 71>>
DCLEAR  == <<68, 67, 76, 69, 65, 82>>
DSTATUS == <<68, 83, 84, 65, 84, 85, 83>>
SRESET  == <<83, 82, 69, 83, 69, 84>>
SHALT   == <<83, 72, 65, 76, 84>>
SPING   == <<83, 80, 73, 78, 71>>
FOO     == <<70, 79, 79>>
mvel    == <<109, 118, 101, 108>>

-----------------------------------------------------------------------------
(* C library and Arduino helpers *)

isdigit(c) == c >= 48 /\ c <= 57

isspace(c) == c = 32 \/ (c >= 9 /\ c <= 13)

\* A constrain that lets every value through.
constrain_none(x, lo, hi) == x

constrain(x, lo, hi) == IF x < lo THEN lo ELSE IF x > hi THEN hi ELSE x

\* Value of a hexadecimal digit, -1 for any other character.
HexVal(c) ==
    IF c >= 48 /\ c <= 57 THEN c - 48
    ELSE IF c >= 65 /\ c <= 70 THEN c - 55
    ELSE IF c >= 97 /\ c <= 102 THEN c - 87
    ELSE -1

RECURSIVE DigitRun(_, _, _)
\* Value of the leading run of base-`base` digits of s, starting from acc.
DigitRun(s, base, acc) ==
    IF s = <<>> THEN acc
    ELSE LET d == HexVal(Head(s)) IN
         IF d < 0 \/ d >= base THEN acc
         ELSE DigitRun(Tail(s), base, acc * base + d)

RECURSIVE SkipSpace(_)
SkipSpace(s) == IF s # <<>> /\ isspace(Head(s)) THEN SkipSpace(Tail(s)) ELSE s

\* atoi on a string that starts with a digit (the only use in the parser).
atoi(s) == DigitRun(s, 10, 0)

\* (uint16_t)strtol(s, nullptr, 16): leading white space, an optional sign, an
\* optional 0x, then hexadecimal digits up to the first other character.
strtol16(s) ==
    LET a == SkipSpace(s)
        neg == a # <<>> /\ Head(a) = 45
        b == IF a # <<>> /\ Head(a) \in {43, 45} THEN Tail(a) ELSE a
        c == IF Len(b) >= 2 /\ b[1] = 48 /\ b[2] \in {88, 120}
             THEN Tail(Tail(b)) ELSE b
        v == DigitRun(c, 16, 0)
    IN  (IF neg THEN Word16 - (v % Word16) ELSE v) % Word16

Bit(x, k) == (x \div (2 ^ k)) % 2

RECURSIVE XorFrom(_, _, _)
XorFrom(a, b, k) ==
    IF k > 16 THEN 0
    ELSE ((Bit(a, k) + Bit(b, k)) % 2) * (2 ^ k) + XorFrom(a, b, k + 1)

\* Bitwise exclusive or of two values of at most 17 bits (a function, so that
\* its arguments are evaluated once).
Xor == [a \in Nat, b \in Nat |-> XorFrom(a, b, 0)]

-----------------------------------------------------------------------------
(* CRC *)

\* One iteration of for (j = 0; j < 8; j++): crc is a uint16_t, so the
\* assignment truncates.
CrcBitStep ==
    [crc \in Nat |->
        (IF Bit(crc, 15) = 1 THEN Xor[crc * 2, CRC_POLYNOMIAL] ELSE crc * 2)
            % Word16]

\* The eight iterations of the bit loop.
CrcBitLoop ==
    [crc \in Nat |->
        CrcBitStep[CrcBitStep[CrcBitStep[CrcBitStep[
        CrcBitStep[CrcBitStep[CrcBitStep[CrcBitStep[crc]]]]]]]]]

\* The register, starting from init, after i iterations of
\* for (i = 0; i < length; i++): crc ^= data[i] << 8, then the bit loop.
CrcAfter(init, data, i) ==
    LET reg[k \in 0..i] ==
            IF k = 0 THEN init
            ELSE CrcBitLoop[Xor[reg[k - 1], data[k] * 256] % Word16]
    IN  reg[i]

\* A register that starts from 0 (the XMODEM variant of the checksum).
calculateCRC_zeroInit(data, length) == CrcAfter(0, data, length)

calculateCRC(data, length) == CrcAfter(65535, data, length)

-----------------------------------------------------------------------------
(* CRC-CCITT by its definition: the remainder, modulo the generator          *)
(* x^16 + x^12 + x^5 + 1, of the message followed by sixteen zero bits, the  *)
(* first sixteen bits complemented (initial register 0xFFFF), taken most     *)
(* significant bit first.  Long division over bit sequences.                 *)

Generator == <<1, 0, 0, 0, 1, 0, 0, 0, 0, 0, 0, 1, 0, 0, 0, 0, 1>>

ByteBits(b) == [k \in 1..8 |-> (b \div (2 ^ (8 - k))) % 2]

RECURSIVE MessageBits(_)
MessageBits(bytes) ==
    IF bytes = <<>> THEN <<>>
    ELSE ByteBits(Head(bytes)) \o MessageBits(Tail(bytes))

Dividend(bytes) ==
    LET m == MessageBits(bytes) \o [k \in 1..16 |-> 0]
    IN  [k \in 1..Len(m) |-> IF k <= 16 THEN 1 - m[k] ELSE m[k]]

RECURSIVE DivideFrom(_, _)
DivideFrom(bits, k) ==
    IF k + 16 > Len(bits) THEN bits
    ELSE IF bits[k] = 0 THEN DivideFrom(bits, k + 1)
    ELSE DivideFrom(
            [j \in 1..Len(bits) |->
                IF j >= k /\ j <= k + 16
                THEN (bits[j] + Generator[j - k + 1]) % 2
                ELSE bits[j]],
            k + 1)

RECURSIVE BitsValue(_, _)
BitsValue(bits, acc) ==
    IF bits = <<>> THEN acc ELSE BitsValue(Tail(bits), 2 * acc + Head(bits))

CrcCcittReference(bytes) ==
    LET r == DivideFrom(Dividend(bytes), 1)
    IN  BitsValue(SubSeq(r, Len(r) - 15, Len(r)), 0)

-----------------------------------------------------------------------------
(* Host side: how a command frame is written on the wire *)

RECURSIVE DecDigits(_)
\* "%d" of a natural number.
DecDigits(n) ==
    IF n < 10 THEN <<48 + n>> ELSE DecDigits(n \div 10) \o <<48 + (n % 10)>>

HexDigit(d) == IF d < 10 THEN 48 + d ELSE 55 + d

\* "%04X" of a 16-bit value.
Hex4(v) == << HexDigit((v \div 4096) % 16), HexDigit((v \div 256) % 16),
              HexDigit((v \div 16) % 16), HexDigit(v % 16) >>

\* <CMD><PARAM_LENGTH>\n<DATA>\n<CRC>\n with the checksum field given.
FrameWith(name, payload, crcField) ==
    name \o DecDigits(Len(payload)) \o <<NL>> \o payload \o <<NL>>
         \o crcField \o <<NL>>

\* The host's calculate_crc: the same loops over the whole payload, the result
\* printed with %04X.
calculate_crc(data) == Hex4(CrcAfter(65535, data, Len(data)))

EncodeFrame(name, payload) == FrameWith(name, payload, calculate_crc(payload))

\* struct.pack("<hhH", left, right, duration): two's complement, little-endian.
Pack16(v) == LET u == (v + Word16) % Word16 IN << u % 256, u \div 256 >>

MvelPayload(left, right, duration) ==
    Pack16(left) \o Pack16(right) \o Pack16(duration)

-----------------------------------------------------------------------------
(* The device state as one record, so that the firmware's functions are      *)
(* operators from state to state and compose in the order the code calls     *)
(* them.                                                                     *)

\* A panel that is idle whenever the firmware looks, in a refresh that is over
\* within the millisecond and during which the host writes nothing.
\*   timed  : the clock is followed through the delay() calls of a refresh
\*   polls  : polls at which a wait finds BUSY high before it finds it low
\*   stuck  : the wait of a refresh (1, 2 or 3) from which BUSY stays high for
\*            good, 0 when there is none
\*   during : bytes that reach the UART while the refresh runs
Prompt == [timed |-> FALSE, polls |-> 0, stuck |-> 0, during |-> <<>>]

Dev ==
    [ rx |-> rx, cmdBuffer |-> cmdBuffer, cmdIndex |-> cmdIndex,
      dataBuffer |-> dataBuffer, dataIndex |-> dataIndex,
      expectedDataLength |-> expectedDataLength,
      receivingData |-> receivingData, ledc |-> ledc,
      motorsRunning |-> motorsRunning, motorStopTime |-> motorStopTime,
      imageBuffer |-> imageBuffer, bufferIndex |-> bufferIndex,
      bufferReady |-> bufferReady, epdSleeping |-> epdSleeping,
      now |-> now, power |-> power, tx |-> tx, called |-> called,
      lastFrame |-> lastFrame, hw |-> hw, frames |-> frames,
      oob |-> "trap", panel |-> Prompt ]

InstallInit(t) ==
    /\ rx = t.rx
    /\ cmdBuffer = t.cmdBuffer
    /\ cmdIndex = t.cmdIndex
    /\ dataBuffer = t.dataBuffer
    /\ dataIndex = t.dataIndex
    /\ expectedDataLength = t.expectedDataLength
    /\ receivingData = t.receivingData
    /\ ledc = t.ledc
    /\ motorsRunning = t.motorsRunning
    /\ motorStopTime = t.motorStopTime
    /\ imageBuffer = t.imageBuffer
    /\ bufferIndex = t.bufferIndex
    /\ bufferReady = t.bufferReady
    /\ epdSleeping = t.epdSleeping
    /\ now = t.now
    /\ power = t.power
    /\ tx = t.tx
    /\ called = t.called
    /\ lastFrame = t.lastFrame
    /\ hw = t.hw
    /\ frames = t.frames

Install(t) ==
    /\ rx' = t.rx
    /\ cmdBuffer' = t.cmdBuffer
    /\ cmdIndex' = t.cmdIndex
    /\ dataBuffer' = t.dataBuffer
    /\ dataIndex' = t.dataIndex
    /\ expectedDataLength' = t.expectedDataLength
    /\ receivingData' = t.receivingData
    /\ ledc' = t.ledc
    /\ motorsRunning' = t.motorsRunning
    /\ motorStopTime' = t.motorStopTime
    /\ imageBuffer' = t.imageBuffer
    /\ bufferIndex' = t.bufferIndex
    /\ bufferReady' = t.bufferReady
    /\ epdSleeping' = t.epdSleeping
    /\ now' = t.now
    /\ power' = t.power
    /\ tx' = t.tx
    /\ called' = t.called
    /\ lastFrame' = t.lastFrame
    /\ hw' = t.hw
    /\ frames' = t.frames

BlankImage == [k \in 1..IMAGE_BUFFER_SIZE |-> 255]

\* imageBuffer when malloc returned no memory: it designates no byte.
nullptr == <<>>

NoFrame ==
    [ seen |-> FALSE, name |-> <<>>, data |-> <<>>, crc |-> <<>>,
      at |-> 0, ran |-> FALSE, timed |-> FALSE, resp |-> <<>>,
      called |-> <<>> ]

\* The globals as setup() leaves them when loop() first runs.
Boot ==
    [ rx |-> <<>>, cmdBuffer |-> <<>>, cmdIndex |-> 0,
      dataBuffer |-> <<>>, dataIndex |-> 0, expectedDataLength |-> 0,
      receivingData |-> FALSE,
      ledc |-> [p \in MotorPins |-> 0],
      motorsRunning |-> FALSE, motorStopTime |-> 0,
      imageBuffer |-> BlankImage, bufferIndex |-> 0, bufferReady |-> FALSE,
      epdSleeping |-> FALSE,
      now |-> 0, power |-> "on", tx |-> <<>>, called |-> <<>>,
      lastFrame |-> NoFrame, hw |-> <<>>, frames |-> 0, oob |-> "trap",
      panel |-> Prompt ]

millis(s) == s.now

\* The program is in a loop it does not leave, or has been stopped by a fault.
Hung(s) == s.power \in {"hung", "fault"}

-----------------------------------------------------------------------------
(* Responses *)

sendResponse(s, status, message) ==
    IF Hung(s) THEN s
    ELSE [s EXCEPT !.tx = Append(@, [status |-> status, msg |-> message]),
                   !.hw = Append(@, <<"serial", status>>)]

sendOK(s, message) == sendResponse(s, "OK", message)

sendError(s, message) == sendResponse(s, "ERR", message)

Enter(s, handler) == [s EXCEPT !.called = Append(@, handler)]

-----------------------------------------------------------------------------
(* Motor control *)

ledcWrite(s, pin, duty) ==
    [s EXCEPT !.ledc[pin] = duty, !.hw = Append(@, <<"ledc", pin, duty>>)]

\* A setMotorSpeed that leaves a pending deadline in place when it is given
\* no duration.
setMotorSpeed_keepsDeadline(s, left_in, right_in, duration_ms) ==
    LET left == constrain(left_in, -255, 255)
        right == constrain(right_in, -255, 255)
        a == IF left >= 0
             THEN ledcWrite(ledcWrite(s, MOTOR_A1, left), MOTOR_A2, 0)
             ELSE ledcWrite(ledcWrite(s, MOTOR_A1, 0), MOTOR_A2, -left)
        b == IF right >= 0
             THEN ledcWrite(ledcWrite(a, MOTOR_B1, right), MOTOR_B2, 0)
             ELSE ledcWrite(ledcWrite(a, MOTOR_B1, 0), MOTOR_B2, -right)
    IN  IF duration_ms > 0
        THEN [b EXCEPT !.motorStopTime = (millis(s) + duration_ms) % ClockMod,
                       !.motorsRunning = TRUE]
        ELSE [b EXCEPT !.motorsRunning = (left # 0 \/ right # 0 \/ @)]

\* A setMotorSpeed whose running flag follows the speeds whatever the duration.
setMotorSpeed_runningFromSpeeds(s, left_in, right_in, duration_ms) ==
    LET left == constrain(left_in, -255, 255)
        right == constrain(right_in, -255, 255)
        a == IF left >= 0
             THEN ledcWrite(ledcWrite(s, MOTOR_A1, left), MOTOR_A2, 0)
             ELSE ledcWrite(ledcWrite(s, MOTOR_A1, 0), MOTOR_A2, -left)
        b == IF right >= 0
             THEN ledcWrite(ledcWrite(a, MOTOR_B1, right), MOTOR_B2, 0)
             ELSE ledcWrite(ledcWrite(a, MOTOR_B1, 0), MOTOR_B2, -right)
    IN  [b EXCEPT !.motorStopTime = IF duration_ms > 0
                                    THEN (millis(s) + duration_ms) % ClockMod
                                    ELSE 0,
                  !.motorsRunning = (left # 0 \/ right # 0)]

setMotorSpeed(s, left_in, right_in, duration_ms) ==
    LET left == constrain(left_in, -255, 255)
        right == constrain(right_in, -255, 255)
        a == IF left >= 0
             THEN ledcWrite(ledcWrite(s, MOTOR_A1, left), MOTOR_A2, 0)
             ELSE ledcWrite(ledcWrite(s, MOTOR_A1, 0), MOTOR_A2, -left)
        b == IF right >= 0
             THEN ledcWrite(ledcWrite(a, MOTOR_B1, right), MOTOR_B2, 0)
             ELSE ledcWrite(ledcWrite(a, MOTOR_B1, 0), MOTOR_B2, -right)
    IN  IF duration_ms > 0
        THEN [b EXCEPT !.motorStopTime = (millis(s) + duration_ms) % ClockMod,
                       !.motorsRunning = TRUE]
        ELSE [b EXCEPT !.motorStopTime = 0,
                       !.motorsRunning = (left # 0 \/ right # 0)]

\* A stop that leaves the deadline of the timed run in place.
stopMotors_keepDeadline(s) ==
    [ledcWrite(ledcWrite(ledcWrite(ledcWrite(s, MOTOR_A1, 0), MOTOR_A2, 0),
                         MOTOR_B1, 0), MOTOR_B2, 0)
        EXCEPT !.motorsRunning = FALSE]

stopMotors(s) ==
    [ledcWrite(ledcWrite(ledcWrite(ledcWrite(s, MOTOR_A1, 0), MOTOR_A2, 0),
                         MOTOR_B1, 0), MOTOR_B2, 0)
        EXCEPT !.motorsRunning = FALSE, !.motorStopTime = 0]

\* A tick that does not test whether a deadline is set.
checkMotorTimeout_anyDeadline(s) ==
    IF s.motorsRunning /\ millis(s) >= s.motorStopTime
    THEN stopMotors(s)
    ELSE s

checkMotorTimeout(s) ==
    IF s.motorsRunning /\ s.motorStopTime > 0 /\ millis(s) >= s.motorStopTime
    THEN stopMotors(s)
    ELSE s

-----------------------------------------------------------------------------
(* Display.  What the panel does with its BUSY line is s.panel: under the    *)
(* Prompt panel a refresh runs to its end within the handler that started   *)
(* it and takes no time; SpecPanel follows the clock through a refresh, with *)
(* a panel that is busy for some polls or for good.  Once a wait hangs, no   *)
(* statement behind it is executed.                                          *)

\* An access through the null pointer: the program is stopped by the fault,
\* or the access goes through and the program runs on.
NullAccess(s) ==
    IF Hung(s) THEN s
    ELSE [s EXCEPT !.hw = Append(@, <<"null">>),
                   !.power = IF s.oob = "trap" THEN "fault" ELSE @]

\* A delay in which the motor deadline is looked after.
delay_yield(s, ms) ==
    IF s.panel.timed
    THEN checkMotorTimeout([s EXCEPT !.now = (@ + ms) % ClockMod,
                                     !.rx = @ \o s.panel.during,
                                     !.panel.during = <<>>])
    ELSE s

\* delay(ms): the clock advances, and what the host wrote is in the UART's
\* buffer when the call returns.
delay(s, ms) ==
    IF s.panel.timed
    THEN [s EXCEPT !.now = (@ + ms) % ClockMod,
                   !.rx = @ \o s.panel.during,
                   !.panel.during = <<>>]
    ELSE s

EPD_SendCommand(s, cmd) ==
    IF Hung(s) THEN s
    ELSE [s EXCEPT !.hw = Append(@, <<"cmd", cmd>>),
                   !.epdSleeping = IF cmd = 16 THEN TRUE ELSE @]

EPD_SendData(s, data) ==
    IF Hung(s) THEN s ELSE [s EXCEPT !.hw = Append(@, <<"data", data>>)]

RECURSIVE WaitsSinceReset(_)
\* The waits for the panel that the log holds behind its last reset pulse.
WaitsSinceReset(log) ==
    IF log = <<>> \/ log[Len(log)] = <<"reset">> THEN 0
    ELSE (IF log[Len(log)] = <<"wait">> THEN 1 ELSE 0)
         + WaitsSinceReset(SubSeq(log, 1, Len(log) - 1))

\* A wait that gives up: it polls as long as the panel lets it and returns.
EPD_WaitUntilIdle_high_timeout(s) ==
    IF Hung(s) THEN s
    ELSE delay([s EXCEPT !.hw = Append(@, <<"wait">>)], s.panel.polls * 100)

\* while (digitalRead(PIN_SPI_BUSY) == 1) delay(100);
EPD_WaitUntilIdle_high(s) ==
    IF Hung(s) THEN s
    ELSE IF s.panel.stuck # 0 /\ WaitsSinceReset(s.hw) + 1 >= s.panel.stuck
         THEN [delay([s EXCEPT !.hw = Append(@, <<"wait">>)], 100)
                  EXCEPT !.power = "hung"]
         ELSE delay([s EXCEPT !.hw = Append(@, <<"wait">>)], s.panel.polls * 100)

\* The reset pulse wakes the panel from deep sleep.
EPD_Reset(s) ==
    IF Hung(s) THEN s
    ELSE delay(delay(delay([s EXCEPT !.hw = Append(@, <<"reset">>),
                                     !.epdSleeping = FALSE],
                           200), 2), 200)

\* A run of EPD_SendCommand / EPD_SendData calls, in order: each is logged, and
\* command 0x10 among them puts the panel to sleep.
EPD_SendAll(s, ops) ==
    IF Hung(s) THEN s
    ELSE [s EXCEPT !.hw = @ \o ops,
                   !.epdSleeping = IF \E k \in 1..Len(ops) : ops[k] = <<"cmd", 16>>
                                   THEN TRUE ELSE @]

\* The register writes after the software reset: 0x21, 0x3C, 0x11, 0x44, 0x45,
\* 0x4E, 0x4F with their data.
PanelRegisters ==
    << <<"cmd", 33>>, <<"data", 64>>, <<"data", 0>>,
       <<"cmd", 60>>, <<"data", 5>>,
       <<"cmd", 17>>, <<"data", 3>>,
       <<"cmd", 68>>, <<"data", 0>>, <<"data", 49>>,
       <<"cmd", 69>>, <<"data", 0>>, <<"data", 0>>, <<"data", 43>>, <<"data", 1>>,
       <<"cmd", 78>>, <<"data", 0>>,
       <<"cmd", 79>>, <<"data", 0>>, <<"data", 0>> >>

\* Reset, wait, software reset (0x12), wait, register writes: the head of both
\* EPD_4in2_V2_Init and EPD_4in2_V2_Display.
EPD_Setup(s) ==
    EPD_SendAll(
        EPD_WaitUntilIdle_high(
            EPD_SendCommand(EPD_WaitUntilIdle_high(EPD_Reset(s)), 18)),
        PanelRegisters)

\* Command 0x24 and the IMAGE_BUFFER_SIZE bytes of the image.
EPD_WriteRam(s, image) ==
    EPD_SendAll(EPD_SendCommand(s, 36),
                [k \in 1..IMAGE_BUFFER_SIZE |-> <<"data", image[k]>>])

\* Refresh trigger 0x22 0xF7 0x20 and the wait for the panel.
EPD_Refresh(s) ==
    EPD_WaitUntilIdle_high(
        EPD_SendAll(s, << <<"cmd", 34>>, <<"data", 247>>, <<"cmd", 32>> >>))

\* Writes white, refreshes, and ends with command 0x24: the panel stays awake.
EPD_4in2_V2_Init(s) ==
    EPD_SendCommand(
        EPD_Refresh(EPD_WriteRam(EPD_Setup(s),
                                 [k \in 1..IMAGE_BUFFER_SIZE |-> 255])),
        36)

\* A refresh that leaves the panel awake.
EPD_4in2_V2_Show_awake(s) == EPD_Refresh(s)

\* Refresh, then deep sleep (0x10 0x01).
EPD_4in2_V2_Show(s) ==
    EPD_SendData(EPD_SendCommand(EPD_Refresh(s), 16), 1)

EPD_4in2_V2_Display(s, image) ==
    EPD_4in2_V2_Show(EPD_WriteRam(EPD_Setup(s), image))

EPD_4in2_V2_Clear(s) == EPD_4in2_V2_Init(s)

\* if (imageBuffer != nullptr) memset(imageBuffer, 0xFF, IMAGE_BUFFER_SIZE);
clearImageBuffer(s) ==
    [s EXCEPT !.imageBuffer = IF @ = nullptr THEN @ ELSE BlankImage,
              !.bufferIndex = 0, !.bufferReady = FALSE]

-----------------------------------------------------------------------------
(* Command handlers *)

\* Conversion of the 16-bit pattern u to int16_t.
ToInt16(u) == IF u >= 32768 THEN u - Word16 ELSE u

handleMVEL(s, data, length) ==
    IF length # MVEL_LENGTH
    THEN sendError(Enter(s, "handleMVEL"), <<"Invalid MVEL data length">>)
    ELSE LET left == ToInt16(data[1] + 256 * data[2])
             right == ToInt16(data[3] + 256 * data[4])
             duration == data[5] + 256 * data[6]
         IN  sendOK(setMotorSpeed(Enter(s, "handleMVEL"), left, right, duration),
                    <<"MVEL L:%d R:%d D:%d", left, right, duration>>)

\* An emergency stop that also clears the image buffer.
handleMSTOP_clearsImage(s) ==
    sendOK(clearImageBuffer(stopMotors(Enter(s, "handleMSTOP"))),
           <<"Motors stopped">>)

handleMSTOP(s) ==
    sendOK(stopMotors(Enter(s, "handleMSTOP")), <<"Motors stopped">>)

\* A handler that stores what it was given before it looks at the length.
handleDIMG_copyFirst(s, data, length) ==
    LET c == [Enter(s, "handleDIMG") EXCEPT
                 !.imageBuffer = [k \in 1..IMAGE_BUFFER_SIZE |->
                                     IF k <= length THEN data[k] ELSE @[k]],
                 !.bufferReady = TRUE]
    IN  IF length # IMAGE_BUFFER_SIZE
        THEN sendError(c, <<"Invalid image size: expected %d, got %d",
                            IMAGE_BUFFER_SIZE, length>>)
        ELSE sendOK(EPD_4in2_V2_Display(c, c.imageBuffer), <<"Image displayed">>)

\* memcpy(imageBuffer, data, IMAGE_BUFFER_SIZE)
memcpy(s, data) ==
    IF s.imageBuffer = nullptr THEN NullAccess(s)
    ELSE [s EXCEPT !.imageBuffer = SubSeq(data, 1, IMAGE_BUFFER_SIZE)]

handleDIMG(s, data, length) ==
    IF length # IMAGE_BUFFER_SIZE
    THEN sendError(Enter(s, "handleDIMG"),
                   <<"Invalid image size: expected %d, got %d",
                     IMAGE_BUFFER_SIZE, length>>)
    ELSE LET m == memcpy(Enter(s, "handleDIMG"), data)
             c == IF Hung(m) THEN m ELSE [m EXCEPT !.bufferReady = TRUE]
         IN  IF c.imageBuffer = nullptr
             THEN \* the panel is sent what the copy left behind the null
                  \* pointer
                  sendOK(EPD_4in2_V2_Display(NullAccess(c),
                                             SubSeq(data, 1, IMAGE_BUFFER_SIZE)),
                         <<"Image displayed">>)
             ELSE sendOK(EPD_4in2_V2_Display(c, c.imageBuffer),
                         <<"Image displayed">>)

handleDCLEAR(s) ==
    sendOK(EPD_4in2_V2_Clear(clearImageBuffer(Enter(s, "handleDCLEAR"))),
           <<"Display cleared">>)

handleDSTATUS(s) ==
    sendOK(Enter(s, "handleDSTATUS"),
           <<"Buffer:%d Ready:%d", s.bufferIndex, IF s.bufferReady THEN 1 ELSE 0>>)

\* ESP.restart(): every global is initialised again; what was written to the
\* serial link before the restart stays written.
Restart(s) ==
    [Boot EXCEPT !.tx = s.tx, !.called = s.called, !.lastFrame = s.lastFrame,
                 !.hw = Append(s.hw, <<"restart">>), !.frames = s.frames,
                 !.oob = s.oob, !.panel = s.panel]

\* A reset that restarts before it answers.
handleSRESET_restartFirst(s) ==
    sendOK(Restart(clearImageBuffer(stopMotors(Enter(s, "handleSRESET")))),
           <<"System reset">>)

handleSRESET(s) ==
    Restart(sendOK(clearImageBuffer(stopMotors(Enter(s, "handleSRESET"))),
                   <<"System reset">>))

\* A halt that answers and goes on running.
handleSHALT_awake(s) ==
    sendOK(stopMotors(Enter(s, "handleSHALT")), <<"Entering deep sleep">>)

\* esp_deep_sleep_start() does not return.
handleSHALT(s) ==
    [sendOK(stopMotors(Enter(s, "handleSHALT")), <<"Entering deep sleep">>)
        EXCEPT !.power = "sleep", !.hw = Append(@, <<"sleep">>)]

\* A ping that also stops the motors.
handleSPING_stop(s) == sendOK(stopMotors(Enter(s, "handleSPING")), <<"pong">>)

handleSPING(s) == sendOK(Enter(s, "handleSPING"), <<"pong">>)

-----------------------------------------------------------------------------
(* Protocol parser *)

\* Upper case of an ASCII letter.
toupper(c) == IF c >= 97 /\ c <= 122 THEN c - 32 ELSE c

\* A comparison that takes upper and lower case letters for equal.
strcasecmp(a, b) ==
    IF Len(a) = Len(b) /\ \A k \in 1..Len(a) : toupper(a[k]) = toupper(b[k])
    THEN 0 ELSE 1

\* strcmp(a, b) is 0 exactly when the two strings are the same.
strcmp(a, b) == IF a = b THEN 0 ELSE 1

Dispatch(s, cmd, data, dataLength) ==
    IF strcmp(cmd, MVEL) = 0 THEN handleMVEL(s, data, dataLength)
    ELSE IF strcmp(cmd, MSTOP) = 0 THEN handleMSTOP(s)
    ELSE IF strcmp(cmd, DIMG) = 0 THEN handleDIMG(s, data, dataLength)
    ELSE IF strcmp(cmd, DCLEAR) = 0 THEN handleDCLEAR(s)
    ELSE IF strcmp(cmd, DSTATUS) = 0 THEN handleDSTATUS(s)
    ELSE IF strcmp(cmd, SRESET) = 0 THEN handleSRESET(s)
    ELSE IF strcmp(cmd, SHALT) = 0 THEN handleSHALT(s)
    ELSE IF strcmp(cmd, SPING) = 0 THEN handleSPING(s)
    ELSE sendError(s, <<"Unknown command: %s", cmd>>)

\* A checksum test that reports the mismatch and dispatches all the same.
processCommand_noReturn(s, cmd, data, dataLength, crcStr) ==
    LET expectedCRC == calculateCRC(data, dataLength)
        receivedCRC == strtol16(crcStr)
    IN  IF expectedCRC # receivedCRC
        THEN Dispatch(sendError(s, <<"CRC mismatch: expected %04X, got %04X",
                                     expectedCRC, receivedCRC>>),
                      cmd, data, dataLength)
        ELSE Dispatch(s, cmd, data, dataLength)

processCommand(s, cmd, data, dataLength, crcStr) ==
    LET expectedCRC == calculateCRC(data, dataLength)
        receivedCRC == strtol16(crcStr)
    IN  IF expectedCRC # receivedCRC
        THEN sendError(s, <<"CRC mismatch: expected %04X, got %04X",
                            expectedCRC, receivedCRC>>)
        ELSE Dispatch(s, cmd, data, dataLength)

RECURSIVE CString(_)
\* The C string held in a character array: what precedes the first NUL.
CString(buf) ==
    IF buf = <<>> \/ Head(buf) = 0 THEN <<>>
    ELSE <<Head(buf)>> \o CString(Tail(buf))

\* Index of the first decimal digit of str, 0 when it has none.
FirstDigit(str) ==
    IF \E k \in 1..Len(str) : isdigit(str[k])
    THEN CHOOSE k \in 1..Len(str) :
            isdigit(str[k]) /\ \A j \in 1..(k - 1) : ~isdigit(str[j])
    ELSE 0

RECURSIVE ReadCrc(_, _)
\* while (Serial.available() > 0 && crcIndex < 5): read up to a newline.
ReadCrc(avail, buf) ==
    IF avail = <<>> \/ Len(buf) >= 5 THEN [buf |-> buf, rest |-> avail]
    ELSE IF Head(avail) = NL THEN [buf |-> buf, rest |-> Tail(avail)]
    ELSE ReadCrc(Tail(avail), Append(buf, Head(avail)))

\* What is recorded about a frame that reached processCommand.
Observe(before, after, cmd, data, crcStr) ==
    [after EXCEPT !.frames = @ + 1, !.lastFrame =
        [ seen |-> TRUE, name |-> cmd, data |-> data, crc |-> crcStr,
          at |-> before.now, ran |-> before.motorsRunning,
          timed |-> before.motorStopTime > 0,
          resp |-> after.tx, called |-> after.called ]]

\* A header line without a digit that is left in the command buffer.
DiscardHeader_keep(r) == r

\* The header line had no digit: cmdIndex = 0, the line is forgotten.
DiscardHeader(r) == [r EXCEPT !.cmdIndex = 0, !.cmdBuffer = <<>>]

\* What a store past the end of an array can do in a build of the firmware:
\* stop the program, or land in the memory behind the array and let it run on.
OutOfBounds == {"trap", "store"}

\* dataBuffer[dataIndex++] = c with dataIndex >= MAX_COMMAND_SIZE: a write
\* past the end of dataBuffer.  Either the program stops there, or the byte
\* lies behind the array, where later reads of dataBuffer find it.
OutOfBoundsWrite(r, c) ==
    IF r.oob = "trap"
    THEN [r EXCEPT !.dataIndex = @ + 1, !.power = "fault"]
    ELSE [r EXCEPT !.dataBuffer = Append(@, c), !.dataIndex = @ + 1]

\* A payload phase that takes at least one byte, whatever the header declares.
PayloadPending_atLeastOne(s) ==
    s.dataIndex < s.expectedDataLength \/ s.dataIndex = 0

\* if (dataIndex < expectedDataLength): the byte read belongs to the payload.
PayloadPending(s) == s.dataIndex < s.expectedDataLength

\* After processCommand: receivingData = false, cmdIndex = 0, dataIndex = 0,
\* expectedDataLength = 0.  What the buffers still hold is never read again.
ResetParser(t) ==
    [t EXCEPT !.receivingData = FALSE, !.cmdIndex = 0, !.dataIndex = 0,
              !.expectedDataLength = 0, !.cmdBuffer = <<>>, !.dataBuffer = <<>>]

\* One iteration of the while loop of parseSerialData: one byte is read (and,
\* at the payload terminator, the checksum field that is already available).
parseSerialByte(s) ==
    LET c == Head(s.rx)
        r == [s EXCEPT !.rx = Tail(@)]
    IN  IF ~s.receivingData
        THEN IF c = NL
             THEN LET str == CString(s.cmdBuffer)
                      k == FirstDigit(str)
                  IN  IF k > 0
                      THEN [r EXCEPT
                              !.expectedDataLength = atoi(SubSeq(str, k, Len(str))),
                              !.cmdBuffer = SubSeq(str, 1, k - 1),
                              !.receivingData = TRUE,
                              !.dataIndex = 0, !.dataBuffer = <<>>,
                              !.cmdIndex = 0]
                      ELSE DiscardHeader(r)
             ELSE IF s.cmdIndex < CMD_BUFFER_SIZE - 1
                  THEN [r EXCEPT !.cmdBuffer = Append(@, c), !.cmdIndex = @ + 1]
                  ELSE r
        ELSE IF PayloadPending(s)
             THEN IF s.dataIndex < MAX_COMMAND_SIZE
                  THEN [r EXCEPT !.dataBuffer = Append(@, c),
                                 !.dataIndex = @ + 1]
                  ELSE OutOfBoundsWrite(r, c)
             ELSE IF c = NL
                  THEN LET crc == ReadCrc(r.rx, <<>>)
                           u == [r EXCEPT !.rx = crc.rest]
                           t == Observe(u,
                                    processCommand(u, s.cmdBuffer, s.dataBuffer,
                                                   s.expectedDataLength, crc.buf),
                                    s.cmdBuffer, s.dataBuffer, crc.buf)
                       IN  IF t.power = "on" THEN ResetParser(t) ELSE t
                  ELSE r

RECURSIVE parseSerialData(_)
\* while (Serial.available() > 0): every byte that is available is consumed.
parseSerialData(s) ==
    IF s.rx = <<>> \/ s.power # "on" THEN s
    ELSE parseSerialData(parseSerialByte(s))

-----------------------------------------------------------------------------
(* The firmware under a host that writes frames and a clock that advances    *)
(* while loop() pauses.  A frame the host writes is in the receive buffer    *)
(* when the next parseSerialData call starts, as a whole or without its      *)
(* checksum field, which then follows.                                       *)

NoSent == [seen |-> FALSE, name |-> <<>>, data |-> <<>>, crc |-> <<>>]

\* A frame as the host writes it: name, payload and checksum field.
WellFormed(name, payload) ==
    [seen |-> TRUE, name |-> name, data |-> payload, crc |-> calculate_crc(payload)]

Corrupted(name, payload, crcField) ==
    [seen |-> TRUE, name |-> name, data |-> payload, crc |-> crcField]

FrameBytes(h) == FrameWith(h.name, h.data, h.crc)

\* The MVEL payload (100, 100, 3536): its CRC is 0x0000.
ZeroCrcPayload == <<100, 0, 100, 0, 208, 13>>

\* The documented example of a clear command: DCLEAR0, an empty payload and
\* the checksum field 0000.
ReadmeClearExample == Corrupted(DCLEAR, <<>>, <<48, 48, 48, 48>>)

\* What the host writes: well-formed frames and frames with a wrong checksum.
HostInputs ==
    { WellFormed(MVEL, MvelPayload(100, 100, 0)),
      WellFormed(MVEL, MvelPayload(100, -100, 2)),
      WellFormed(MVEL, MvelPayload(-300, 300, 3)),
      WellFormed(MVEL, MvelPayload(0, 0, 2)),
      WellFormed(MSTOP, <<>>),
      WellFormed(SPING, <<>>),
      WellFormed(DIMG, [k \in 1..IMAGE_BUFFER_SIZE |-> 0]),
      WellFormed(SRESET, <<>>),
      WellFormed(SHALT, <<>>),
      Corrupted(MVEL, ZeroCrcPayload, Hex4(43981)) }

\* The frames of the protocol specification: those above, the other display
\* commands, a DIMG of the wrong size, and names the dispatcher does not know.
ProtocolInputs ==
    HostInputs \cup
    { ReadmeClearExample,
      WellFormed(DCLEAR, <<>>),
      WellFormed(DSTATUS, <<>>),
      WellFormed(DIMG, <<0>>),
      WellFormed(DIMG, [k \in 1..(IMAGE_BUFFER_SIZE + 1) |-> 0]),
      WellFormed(FOO, <<>>),
      WellFormed(mvel, MvelPayload(100, 100, 0)) }

\* The frames whose checksum field may reach the UART later than the rest.
SplitInputs ==
    { WellFormed(MSTOP, <<>>),
      Corrupted(MVEL, ZeroCrcPayload, Hex4(43981)),
      ReadmeClearExample }

\* A line of letters without a digit.
Letters(n) == [k \in 1..n |-> 65 + (k % 26)]

\* Byte streams that are not one frame: header lines without a digit (one
\* longer than cmdBuffer, one followed by a well-formed frame), an image frame
\* with a second frame right behind it, and a header that declares one byte
\* more than dataBuffer holds, followed by that many bytes; an MSTOP frame
\* whose header line goes on for more letters than cmdBuffer holds, and one
\* that carries two bytes where it declares none.
RawInputs ==
    { <<NL>>,
      MSTOP \o <<48>> \o Letters(CMD_BUFFER_SIZE) \o <<NL, NL>>
            \o calculate_crc(<<>>) \o <<NL>>,
      MSTOP \o <<48, NL, 88, 89, NL>> \o calculate_crc(<<>>) \o <<NL>>,
      <<80, 73, 78, 71, NL>>,
      EncodeFrame(DIMG, [k \in 1..IMAGE_BUFFER_SIZE |-> 0])
            \o EncodeFrame(SPING, <<>>),
      Letters(CMD_BUFFER_SIZE + 4) \o <<NL>>,
      <<80, 73, 78, 71, NL>> \o EncodeFrame(SPING, <<>>),
      <<88>> \o DecDigits(MAX_COMMAND_SIZE + 1) \o <<NL>>
            \o Letters(MAX_COMMAND_SIZE + 1) }

\* Number of bytes of the frame up to and including the payload terminator.
PayloadEnd(h) == Len(FrameBytes(h)) - Len(h.crc) - 1

\* How many bytes of the frame are in the receive buffer when the next
\* parseSerialData call starts: all of them, or all but the checksum field.
Deliveries(h) ==
    {Len(FrameBytes(h))} \cup (IF h \in SplitInputs THEN {PayloadEnd(h)} ELSE {})

\* Pauses of loop(): delay(1) and whatever the other services take, or a stall
\* longer than CMD_TIMEOUT_MS.
DelaySteps == (1..MaxStep) \cup {CMD_TIMEOUT_MS + 1}

\* The clock values the model follows: the first milliseconds after boot, and
\* the last before the 32-bit counter wraps.
Followed(t) == t <= MaxTime \/ t >= ClockMod - WrapMargin

Init ==
    /\ InstallInit(Boot)
    /\ wire = <<>>
    /\ pc = "parse"
    /\ sent = NoSent
    /\ crcIn = <<>>
    /\ crcOut = -1
    /\ chunk = <<>>

Harness == UNCHANGED <<crcIn, crcOut, chunk>>

\* The host writes a frame; its first k bytes are buffered by the UART before
\* the next parseSerialData call, the others are still on the line.
HostSend(h, k) ==
    /\ power = "on" /\ pc = "parse"
    /\ rx = <<>> /\ wire = <<>>
    /\ rx' = SubSeq(FrameBytes(h), 1, k)
    /\ wire' = SubSeq(FrameBytes(h), k + 1, Len(FrameBytes(h)))
    /\ sent' = h
    /\ UNCHANGED <<cmdBuffer, cmdIndex, dataBuffer, dataIndex,
                   expectedDataLength, receivingData, ledc, motorsRunning,
                   motorStopTime, imageBuffer, bufferIndex, bufferReady,
                   epdSleeping, now, power, pc, tx, called, lastFrame, hw,
                   frames>>
    /\ Harness

\* The host writes bytes that are no frame.
HostWrite(b) ==
    /\ power = "on" /\ pc = "parse"
    /\ rx = <<>> /\ wire = <<>>
    /\ rx' = b
    /\ sent' = NoSent
    /\ UNCHANGED <<wire, cmdBuffer, cmdIndex, dataBuffer, dataIndex,
                   expectedDataLength, receivingData, ledc, motorsRunning,
                   motorStopTime, imageBuffer, bufferIndex, bufferReady,
                   epdSleeping, now, power, pc, tx, called, lastFrame, hw,
                   frames>>
    /\ Harness

\* What the host writes to a device it does not know to be asleep.
AsleepInputs == { WellFormed(SPING, <<>>), WellFormed(MVEL, MvelPayload(100, 100, 0)) }

\* The host writes a frame while the device is in deep sleep.
HostSendAsleep(h) ==
    /\ power = "sleep"
    /\ rx = <<>> /\ wire = <<>>
    /\ rx' = FrameBytes(h)
    /\ sent' = h
    /\ UNCHANGED <<wire, cmdBuffer, cmdIndex, dataBuffer, dataIndex,
                   expectedDataLength, receivingData, ledc, motorsRunning,
                   motorStopTime, imageBuffer, bufferIndex, bufferReady,
                   epdSleeping, now, power, pc, tx, called, lastFrame, hw,
                   frames>>
    /\ Harness

\* The bytes on the line reach the receive buffer.
Arrive ==
    /\ power = "on" /\ pc = "parse"
    /\ wire # <<>>
    /\ rx' = rx \o wire
    /\ wire' = <<>>
    /\ UNCHANGED <<cmdBuffer, cmdIndex, dataBuffer, dataIndex,
                   expectedDataLength, receivingData, ledc, motorsRunning,
                   motorStopTime, imageBuffer, bufferIndex, bufferReady,
                   epdSleeping, now, power, pc, tx, called, lastFrame, hw,
                   frames, sent>>
    /\ Harness

\* loop(): parseSerialData().
ParseSerial ==
    /\ power = "on" /\ pc = "parse"
    /\ \E o \in OutOfBounds : Install(parseSerialData([Dev EXCEPT !.oob = o]))
    /\ pc' = "check"
    /\ UNCHANGED <<wire, sent>>
    /\ Harness

\* An iteration of loop() that goes on to its pause without the timeout test.
CheckTimeout_skip ==
    /\ power = "on" /\ pc = "check"
    /\ Install(Dev)
    /\ pc' = "delay"
    /\ UNCHANGED <<wire, sent>>
    /\ Harness

\* loop(): checkMotorTimeout().
CheckTimeout ==
    /\ power = "on" /\ pc = "check"
    /\ Install(checkMotorTimeout(Dev))
    /\ pc' = "delay"
    /\ UNCHANGED <<wire, sent>>
    /\ Harness

\* loop(): delay(1), and the services at the head of the next iteration,
\* where the observation of an iteration starts afresh.
Delay(dt) ==
    /\ power = "on" /\ pc = "delay"
    /\ Followed(now)
    /\ dt <= MaxStep => Followed((now + dt) % ClockMod)
    /\ dt > MaxStep => now <= MaxTime
    /\ now' = (now + dt) % ClockMod
    /\ pc' = "parse"
    /\ tx' = <<>> /\ called' = <<>> /\ hw' = <<>> /\ frames' = 0
    /\ UNCHANGED <<wire, rx, cmdBuffer, cmdIndex, dataBuffer, dataIndex,
                   expectedDataLength, receivingData, ledc, motorsRunning,
                   motorStopTime, imageBuffer, bufferIndex, bufferReady,
                   epdSleeping, power, lastFrame, sent>>
    /\ Harness

\* The iterations of loop() over a long time in which no byte arrives and the
\* motors are stopped (parseSerialData and checkMotorTimeout have nothing to
\* do), up to shortly before the clock wraps.
IdleUptime ==
    /\ power = "on" /\ pc = "delay"
    /\ ~motorsRunning
    /\ rx = <<>> /\ wire = <<>>
    /\ now < ClockMod - WrapMargin
    /\ now' = ClockMod - WrapMargin
    /\ pc' = "parse"
    /\ tx' = <<>> /\ called' = <<>> /\ hw' = <<>> /\ frames' = 0
    /\ UNCHANGED <<wire, rx, cmdBuffer, cmdIndex, dataBuffer, dataIndex,
                   expectedDataLength, receivingData, ledc, motorsRunning,
                   motorStopTime, imageBuffer, bufferIndex, bufferReady,
                   epdSleeping, power, lastFrame, sent>>
    /\ Harness

Next ==
    \/ \E h \in HostInputs : \E k \in Deliveries(h) : HostSend(h, k)
    \/ Arrive
    \/ ParseSerial
    \/ CheckTimeout
    \/ \E dt \in DelaySteps : Delay(dt)
    \/ IdleUptime

Spec == Init /\ [][Next]_vars

\* The firmware under every kind of input, in the first milliseconds after
\* boot with loop() pausing one millisecond at a time.
NextProtocol ==
    \/ \E h \in ProtocolInputs : \E k \in Deliveries(h) : HostSend(h, k)
    \/ \E b \in RawInputs : HostWrite(b)
    \/ \E h \in AsleepInputs : HostSendAsleep(h)
    \/ Arrive
    \/ ParseSerial
    \/ CheckTimeout
    \/ Delay(1)

SpecProtocol == Init /\ [][NextProtocol]_vars

\* The firmware under a host that writes nothing but frames.
NextFrames ==
    \/ \E h \in ProtocolInputs : \E k \in Deliveries(h) : HostSend(h, k)
    \/ Arrive
    \/ ParseSerial
    \/ CheckTimeout
    \/ Delay(1)

SpecFrames == Init /\ [][NextFrames]_vars

\* What the host writes while a refresh runs: nothing, or a frame.
DuringInputs ==
    { <<>>, FrameBytes(WellFormed(SPING, <<>>)), FrameBytes(WellFormed(MSTOP, <<>>)) }

\* What the panel does in one refresh: how long it is busy at each wait,
\* whether and where it stays busy, and what the host writes meanwhile.
PanelBehaviours ==
    [ timed : {TRUE}, polls : 0..MaxPolls, stuck : 0..3, during : DuringInputs ]

\* Motions without a deadline, with one that a refresh outlasts and with one
\* that outlasts a refresh; the display commands; MSTOP and SPING.
PanelInputs ==
    { WellFormed(MVEL, MvelPayload(100, 100, 0)),
      WellFormed(MVEL, MvelPayload(100, -100, 2)),
      WellFormed(MVEL, MvelPayload(100, 100, 1000)),
      WellFormed(MSTOP, <<>>),
      WellFormed(SPING, <<>>),
      WellFormed(DIMG, [k \in 1..IMAGE_BUFFER_SIZE |-> 0]),
      WellFormed(DCLEAR, <<>>) }

\* loop(): parseSerialData(), with a panel that takes its time.
ParseSerialPanel ==
    /\ power = "on" /\ pc = "parse"
    /\ \E p \in PanelBehaviours : Install(parseSerialData([Dev EXCEPT !.panel = p]))
    /\ pc' = "check"
    /\ UNCHANGED <<wire, sent>>
    /\ Harness

\* The firmware with the clock followed through the refresh of the display.
NextPanel ==
    \/ \E h \in PanelInputs : HostSend(h, Len(FrameBytes(h)))
    \/ ParseSerialPanel
    \/ CheckTimeout
    \/ Delay(1)

SpecPanel == Init /\ [][NextPanel]_vars

\* A header that declares the six payload bytes of an MVEL, and two of them.
TruncatedFrame == MVEL \o <<54, NL, 100, 0>>

\* What the host writes after the frame it did not finish.
RecoveryInputs ==
    { WellFormed(SPING, <<>>),
      WellFormed(MSTOP, <<>>),
      WellFormed(MVEL, MvelPayload(100, 100, 0)),
      WellFormed(DSTATUS, <<>>) }

\* The firmware under a host that stops in the middle of a frame, with stalls
\* longer than CMD_TIMEOUT_MS.
NextTruncated ==
    \/ HostWrite(TruncatedFrame)
    \/ \E h \in RecoveryInputs : HostSend(h, Len(FrameBytes(h)))
    \/ ParseSerial
    \/ CheckTimeout
    \/ \E dt \in DelaySteps : Delay(dt)

SpecTruncated == Init /\ [][NextTruncated]_vars

\* The state after a setup() in which initImageBuffer got no memory.
InitNoBuffer ==
    /\ InstallInit([Boot EXCEPT !.imageBuffer = nullptr])
    /\ wire = <<>>
    /\ pc = "parse"
    /\ sent = NoSent
    /\ crcIn = <<>>
    /\ crcOut = -1
    /\ chunk = <<>>

\* The display commands, one of them with an image of the wrong size, and
\* motor commands between them.
NoBufferInputs ==
    { WellFormed(DIMG, [k \in 1..IMAGE_BUFFER_SIZE |-> 0]),
      WellFormed(DIMG, <<0>>),
      WellFormed(DCLEAR, <<>>),
      WellFormed(DSTATUS, <<>>),
      WellFormed(SPING, <<>>),
      WellFormed(MVEL, MvelPayload(100, 100, 0)),
      WellFormed(MVEL, MvelPayload(100, -100, 2)),
      WellFormed(MSTOP, <<>>) }

NextNoBuffer ==
    \/ \E h \in NoBufferInputs : HostSend(h, Len(FrameBytes(h)))
    \/ ParseSerial
    \/ CheckTimeout
    \/ Delay(1)

\* The firmware without an image buffer.
SpecNoBuffer == InitNoBuffer /\ [][NextNoBuffer]_vars

-----------------------------------------------------------------------------
(* The parser on one encoded frame: the host has encoded (name, payload) and  *)
(* the whole frame is in the receive buffer when parseSerialData is called.   *)

SeqsUpTo(S, n) == UNION { [1..k -> S] : k \in 0..n }

\* Little-endian 16-bit words at and beyond the limits of the duty range.
SpeedWords ==
    { <<0, 0>>, <<1, 0>>, <<48, 0>>, <<255, 0>>, <<0, 1>>, <<44, 1>>,
      <<255, 127>>, <<0, 128>>, <<212, 254>>, <<0, 255>>, <<1, 255>>,
      <<255, 255>> }

DurationWords == { <<0, 0>>, <<NL, 0>>, <<255, 255>> }

CodecNames ==
    {MVEL, MSTOP, DIMG, DCLEAR, DSTATUS, SRESET, SHALT, SPING, FOO, mvel}

\* Payloads of newline bytes, digits and 0xFF, and the MVEL payloads.
CodecPayloads ==
    SeqsUpTo({NL, 48, 255}, MaxPayloadLen)
        \cup { l \o r \o d : l \in SpeedWords, r \in SpeedWords,
                             d \in DurationWords }

InitCodec ==
    \E name \in CodecNames, payload \in CodecPayloads :
        /\ InstallInit([Boot EXCEPT !.rx = EncodeFrame(name, payload)])
        /\ wire = <<>>
        /\ pc = "parse"
        /\ sent = WellFormed(name, payload)
        /\ crcIn = <<>>
        /\ crcOut = -1
        /\ chunk = <<>>

SpecCodec == InitCodec /\ [][ParseSerial]_vars

-----------------------------------------------------------------------------
(* calculateCRC on its own *)

CrcBytes == {0, 1, NL, 128, 255}

\* "123456789", the check string of the CRC catalogues.
CheckString == <<49, 50, 51, 52, 53, 54, 55, 56, 57>>

InitCrc ==
    /\ InstallInit(Boot)
    /\ wire = <<>>
    /\ pc = "parse"
    /\ sent = NoSent
    /\ crcIn \in SeqsUpTo(CrcBytes, MaxCrcLen) \cup {CheckString}
    /\ crcOut = -1
    /\ chunk = <<>>

CrcCall ==
    /\ crcOut = -1
    /\ crcOut' = calculateCRC(crcIn, Len(crcIn))
    /\ UNCHANGED <<wire, rx, cmdBuffer, cmdIndex, dataBuffer, dataIndex,
                   expectedDataLength, receivingData, ledc, motorsRunning,
                   motorStopTime, imageBuffer, bufferIndex, bufferReady,
                   epdSleeping, now, power, pc, tx, called, lastFrame,
                   hw, frames, sent, crcIn, chunk>>

SpecCrc == InitCrc /\ [][CrcCall]_vars

-----------------------------------------------------------------------------
(* The image buffer of the legacy portal (src/legacy/EPaper_AP_Portal),      *)
(* filled chunk by chunk by handleApiUpload.                                 *)

min(a, b) == IF a < b THEN a ELSE b

\* memcpy(buf + at, data, n): the n bytes land behind the first `at` bytes.
CopyAt(buf, at, data, n) ==
    [k \in 1..(IF at + n > Len(buf) THEN at + n ELSE Len(buf)) |->
        IF k > at /\ k <= at + n THEN data[k - at] ELSE buf[k]]

\* A receive that copies the whole chunk, whatever room is left.
ImageBuffer_Receive_noClamp(s, data, len) ==
    IF s.imageBuffer = nullptr THEN s
    ELSE LET copyLen == len
             c == IF copyLen > 0
                  THEN [s EXCEPT !.imageBuffer = CopyAt(@, s.bufferIndex, data, copyLen),
                                 !.bufferIndex = (@ + copyLen) % Word16]
                  ELSE s
         IN  IF c.bufferIndex >= IMAGE_BUFFER_SIZE
             THEN [c EXCEPT !.bufferReady = TRUE]
             ELSE c

\* bool ImageBuffer_Receive(const uint8_t* data, uint16_t len); the result
\* (false without a buffer) is not used by the caller.
ImageBuffer_Receive(s, data, len) ==
    IF s.imageBuffer = nullptr THEN s
    ELSE LET copyLen == min(len, (IMAGE_BUFFER_SIZE - s.bufferIndex) % Word16)
             c == IF copyLen > 0
                  THEN [s EXCEPT !.imageBuffer = CopyAt(@, s.bufferIndex, data, copyLen),
                                 !.bufferIndex = (@ + copyLen) % Word16]
                  ELSE s
         IN  IF c.bufferIndex >= IMAGE_BUFFER_SIZE
             THEN [c EXCEPT !.bufferReady = TRUE]
             ELSE c

ImageBuffer_Reset(s) == [s EXCEPT !.bufferIndex = 0, !.bufferReady = FALSE]

ChunkBytes == {0, 1}

\* Chunks up to one byte longer than the buffer.
Chunks == SeqsUpTo(ChunkBytes, IMAGE_BUFFER_SIZE + 1)

\* ImageBuffer_Init, with or without memory for the buffer.
InitReceive ==
    \E b \in {BlankImage, nullptr} :
        /\ InstallInit([Boot EXCEPT !.imageBuffer = b])
        /\ wire = <<>>
        /\ pc = "parse"
        /\ sent = NoSent
        /\ crcIn = <<>>
        /\ crcOut = -1
        /\ chunk = <<>>

\* One call of ImageBuffer_Receive(data, len), as handleApiUpload makes for
\* each decoded chunk.
ReceiveCall(data) ==
    /\ Install(ImageBuffer_Receive(Dev, data, Len(data)))
    /\ chunk' = data
    /\ pc' = "receive"
    /\ UNCHANGED <<wire, sent, crcIn, crcOut>>

\* One call of ImageBuffer_Reset(): the cursor returns to the start and the
\* bytes stay.
ResetCall ==
    /\ Install(ImageBuffer_Reset(Dev))
    /\ pc' = "reset"
    /\ UNCHANGED <<wire, sent, crcIn, crcOut, chunk>>

NextReceive ==
    \/ \E data \in Chunks : ReceiveCall(data)
    \/ ResetCall

SpecReceive == InitReceive /\ [][NextReceive]_vars

-----------------------------------------------------------------------------
(* Vocabulary of the properties *)

Idle ==
    /\ \A p \in MotorPins : ledc[p] = 0
    /\ ~motorsRunning
    /\ motorStopTime = 0

CrcMismatchText == "CRC mismatch: expected %04X, got %04X"

\* The frame was turned away by the checksum test.
CrcRejected(f) ==
    f.resp # <<>> /\ f.resp[1].status = "ERR" /\ f.resp[1].msg[1] = CrcMismatchText

\* The last frame passed the checksum test and was an MVEL of six bytes.
AcceptedMvel ==
    /\ lastFrame.seen
    /\ lastFrame.name = MVEL
    /\ Len(lastFrame.data) = MVEL_LENGTH
    /\ ~CrcRejected(lastFrame)

AcceptedMstop ==
    lastFrame.seen /\ lastFrame.name = MSTOP /\ ~CrcRejected(lastFrame)

\* Milliseconds since the last frame reached processCommand, for less than
\* one turn of the clock.
Elapsed == (now - lastFrame.at) % ClockMod

SignedLE(lo, hi) == IF hi >= 128 THEN lo + 256 * hi - 65536 ELSE lo + 256 * hi

Clamped(v) == IF v < -255 THEN -255 ELSE IF v > 255 THEN 255 ELSE v

FrameLeft == SignedLE(lastFrame.data[1], lastFrame.data[2])

FrameRight == SignedLE(lastFrame.data[3], lastFrame.data[4])

FrameDuration == lastFrame.data[5] + 256 * lastFrame.data[6]

Forward(v) == IF v > 0 THEN v ELSE 0

Reverse(v) == IF v < 0 THEN -v ELSE 0

\* The four duties are those of the clamped speeds of the last frame.
DutiesOfFrame ==
    /\ ledc[MOTOR_A1] = Forward(Clamped(FrameLeft))
    /\ ledc[MOTOR_A2] = Reverse(Clamped(FrameLeft))
    /\ ledc[MOTOR_B1] = Forward(Clamped(FrameRight))
    /\ ledc[MOTOR_B2] = Reverse(Clamped(FrameRight))

\* The value of a checksum field of four hexadecimal digits.
FieldValue(field) ==
    4096 * HexVal(field[1]) + 256 * HexVal(field[2])
        + 16 * HexVal(field[3]) + HexVal(field[4])

\* The names processCommand dispatches on.
KnownNames == {MVEL, MSTOP, DIMG, DCLEAR, DSTATUS, SRESET, SHALT, SPING}

\* This step is a parseSerialData call in which one frame reached
\* processCommand and passed the checksum test.
FrameAccepted ==
    /\ pc = "parse" /\ pc' = "check"
    /\ frames' = 1
    /\ ~CrcRejected(lastFrame')

MotorVars == <<ledc, motorsRunning, motorStopTime>>

DisplayVars == <<imageBuffer, bufferIndex, bufferReady, epdSleeping>>

ParserVars ==
    <<cmdBuffer, cmdIndex, dataBuffer, dataIndex, expectedDataLength,
      receivingData>>

\* The response written for the last frame.
Reply == lastFrame.resp[Len(lastFrame.resp)]

-----------------------------------------------------------------------------
(* Properties *)

\* C1: communication watchdog.  Once loop() has made its checks, motors that
\* are running have had a successfully dispatched frame within the last
\* CMD_TIMEOUT_MS milliseconds: beyond that silence the loop has stopped them.
C1_WatchdogStopsMotors ==
    ( /\ pc = "delay"
      /\ lastFrame.seen /\ ~CrcRejected(lastFrame)
      /\ Elapsed > CMD_TIMEOUT_MS )
        => ~motorsRunning

\* C2: timed auto-stop.  When the last frame is an accepted MVEL with a
\* duration above zero and loop() has made its check with at least that
\* duration elapsed since the command, the motor state is IDLE: the four
\* duties are zero, running is false and the deadline is cleared.
C2_TimedAutoStop ==
    ( /\ pc = "delay"
      /\ AcceptedMvel
      /\ FrameDuration > 0
      /\ Elapsed >= FrameDuration )
        => Idle

\* C3: indefinite motion.  While the last frame is an accepted MVEL with
\* duration zero and a non-zero speed, the motors run at the commanded
\* (clamped) duties with no deadline, at every position of the loop and at
\* every clock value: no timeout tick stops them.
C3_IndefiniteMotionNotTimedOut ==
    ( /\ AcceptedMvel
      /\ FrameDuration = 0
      /\ (FrameLeft # 0 \/ FrameRight # 0) )
        => (motorsRunning /\ motorStopTime = 0 /\ DutiesOfFrame)

\* Indefinite motion that is still running after ticks more than
\* CMD_TIMEOUT_MS later.
C3_Witness ==
    /\ pc = "delay"
    /\ AcceptedMvel
    /\ FrameDuration = 0
    /\ FrameLeft # 0
    /\ Elapsed > CMD_TIMEOUT_MS
    /\ motorsRunning

\* C4: clamping.  Every duty written to a motor pin is in 0..255, and right
\* after an accepted MVEL of six bytes the duties are those of the decoded
\* signed little-endian speeds clamped to [-255, 255].
C4_DutyIsClampedSpeed ==
    /\ \A p \in MotorPins : ledc[p] \in 0..255
    /\ (pc = "check" /\ AcceptedMvel) => DutiesOfFrame

\* The extreme speeds -32768 and 32767 applied as full reverse and full
\* forward.
C4_Witness ==
    /\ pc = "check"
    /\ AcceptedMvel
    /\ FrameLeft = -32768 /\ FrameRight = 32767
    /\ ledc[MOTOR_A2] = 255 /\ ledc[MOTOR_B1] = 255

\* C5: checksum rejection.  When parseSerialData completes the frame the
\* host wrote and the frame's checksum field differs from the CRC-CCITT of
\* its payload, the call writes exactly one ERR response that cites the
\* expected checksum and the frame's checksum, enters no handler, and leaves
\* the motor state and the display buffer state as they were.
C5_CrcMismatchRejected ==
    [][ ( /\ pc = "parse" /\ pc' = "check"
          /\ tx' # <<>>
          /\ lastFrame'.name = sent.name /\ lastFrame'.data = sent.data
          /\ FieldValue(sent.crc) # CrcCcittReference(sent.data) )
        => ( /\ tx' = << [ status |-> "ERR",
                           msg |-> << CrcMismatchText,
                                      CrcCcittReference(sent.data),
                                      FieldValue(sent.crc) >> ] >>
             /\ called' = <<>>
             /\ UNCHANGED <<ledc, motorsRunning, motorStopTime,
                            imageBuffer, bufferIndex, bufferReady>> )
      ]_vars

\* C6: CRC round trip.  Once parseSerialData has consumed all the bytes of a
\* frame the host encoded from (name, payload) with the CRC of the payload as
\* four upper-case hexadecimal digits, the frame has passed the checksum test
\* and the dispatcher was given exactly that name and that payload.
C6_CrcRoundTrip ==
    ( /\ pc = "check"
      /\ sent.seen
      /\ sent.crc = Hex4(CrcCcittReference(sent.data))
      /\ rx = <<>> /\ wire = <<>> )
        => ( /\ lastFrame.seen
             /\ ~CrcRejected(lastFrame)
             /\ lastFrame.name = sent.name
             /\ lastFrame.data = sent.data )

\* C7: CRC conformance.  calculateCRC returns the CRC-CCITT of the payload
\* (polynomial 0x1021, initial value 0xFFFF, most significant bit first, no
\* final XOR), a value in 0..0xFFFF, and 0xFFFF for the empty payload.
C7_CrcIsCcitt ==
    crcOut # -1 =>
        /\ crcOut = CrcCcittReference(crcIn)
        /\ crcOut \in 0..65535
        /\ (crcIn = <<>> => crcOut = 65535)

\* The catalogue's check value 0x29B1 for "123456789".
C7_Witness == crcIn = CheckString /\ crcOut = 10673

\* C8: MSTOP.  While the last frame is an accepted MSTOP the motor state is
\* IDLE and the response was one OK; and from every reachable state a second
\* MSTOP leaves the motor state of the first and adds a second OK.
C8_MstopIdempotent ==
    /\ AcceptedMstop =>
          (Idle /\ lastFrame.resp =
                      << [status |-> "OK", msg |-> <<"Motors stopped">>] >>)
    /\ LET once == handleMSTOP(Dev)
           twice == handleMSTOP(once)
       IN  /\ \A p \in MotorPins : once.ledc[p] = 0
           /\ ~once.motorsRunning /\ once.motorStopTime = 0
           /\ twice.ledc = once.ledc
           /\ twice.motorsRunning = once.motorsRunning
           /\ twice.motorStopTime = once.motorStopTime
           /\ twice.tx = Append(once.tx,
                            [status |-> "OK", msg |-> <<"Motors stopped">>])

\* An MSTOP that has ended a run.
C8_Witness ==
    /\ pc = "check"
    /\ AcceptedMstop
    /\ lastFrame.ran
    /\ Idle

\* C9: the OK response to an accepted MVEL reports the applied (clamped)
\* left and right values.
C9_ResponseEchoesApplied ==
    (pc = "check" /\ AcceptedMvel) =>
        /\ lastFrame.resp[1].status = "OK"
        /\ lastFrame.resp[1].msg[2] = Clamped(FrameLeft)
        /\ lastFrame.resp[1].msg[3] = Clamped(FrameRight)

\* C10: right after an accepted MVEL, running holds exactly when the left or
\* the right speed is non-zero, whatever the duration.
C10_RunningIffNonZero ==
    (pc = "check" /\ AcceptedMvel) =>
        (motorsRunning <=> (FrameLeft # 0 \/ FrameRight # 0))


\* C11: an accepted frame whose name is not, letter for letter and case for
\* case, one of the eight known names gets exactly one ERR that carries the
\* name; no handler runs, and motor and display state and hardware are left
\* alone.
C11_UnknownNameRejected ==
    [][ (FrameAccepted /\ lastFrame'.name \notin KnownNames) =>
            /\ tx' = << [status |-> "ERR",
                         msg |-> <<"Unknown command: %s", lastFrame'.name>>] >>
            /\ called' = <<>>
            /\ hw' = << <<"serial", "ERR">> >>
            /\ UNCHANGED MotorVars
            /\ UNCHANGED DisplayVars ]_vars

\* A frame named "mvel" with a valid MVEL payload has been turned away while
\* the motors were running.
C11_Witness ==
    /\ pc = "check"
    /\ frames = 1
    /\ lastFrame.name = mvel
    /\ Len(lastFrame.data) = MVEL_LENGTH
    /\ ~CrcRejected(lastFrame)
    /\ Reply.status = "ERR"
    /\ motorsRunning

\* Payload length each known command takes: six bytes for MVEL, the image
\* size for DIMG, none for the others.
ExpectedLength(name) ==
    IF name = MVEL THEN MVEL_LENGTH
    ELSE IF name = DIMG THEN IMAGE_BUFFER_SIZE
    ELSE 0

\* C12: an accepted frame of a known command whose payload length is not the
\* one the command takes is answered with ERR, and no handler touches motor,
\* display or supervisor: the only hardware operation is the serial write and
\* the firmware stays powered and running.
C12_LengthValidated ==
    ( /\ pc = "check"
      /\ frames = 1
      /\ ~CrcRejected(lastFrame)
      /\ lastFrame.name \in KnownNames
      /\ Len(lastFrame.data) # ExpectedLength(lastFrame.name) )
    => ( /\ Len(tx) = 1
         /\ tx[1].status = "ERR"
         /\ hw = << <<"serial", "ERR">> >>
         /\ power = "on" )

\* C13: an accepted DIMG frame whose payload is not IMAGE_BUFFER_SIZE bytes
\* long gets one ERR that carries the expected and the actual size; the only
\* hardware operation is the serial write, and image buffer, cursor, ready
\* flag and panel state are what they were.
C13_WrongSizeImageRejected ==
    [][ ( /\ FrameAccepted
          /\ lastFrame'.name = DIMG
          /\ Len(lastFrame'.data) # IMAGE_BUFFER_SIZE ) =>
            /\ tx' = << [status |-> "ERR",
                         msg |-> <<"Invalid image size: expected %d, got %d",
                                   IMAGE_BUFFER_SIZE, Len(lastFrame'.data)>>] >>
            /\ hw' = << <<"serial", "ERR">> >>
            /\ UNCHANGED DisplayVars ]_vars

\* A DIMG of the wrong size has been turned away while the buffer held an
\* image that had been shown.
C13_Witness ==
    /\ pc = "check"
    /\ frames = 1
    /\ lastFrame.name = DIMG
    /\ Len(lastFrame.data) # IMAGE_BUFFER_SIZE
    /\ ~CrcRejected(lastFrame)
    /\ Reply.status = "ERR"
    /\ bufferReady
    /\ imageBuffer # BlankImage

\* The panel operations of one image: reset pulse, wait, the init commands
\* (software reset 0x12, wait, register writes), 0x24 and the image bytes,
\* the refresh trigger 0x22 0xF7 0x20, wait, and deep sleep 0x10 0x01.
DisplaySequence(image) ==
    << <<"reset">>, <<"wait">>, <<"cmd", 18>>, <<"wait">> >>
        \o PanelRegisters
        \o << <<"cmd", 36>> >>
        \o [k \in 1..IMAGE_BUFFER_SIZE |-> <<"data", image[k]>>]
        \o << <<"cmd", 34>>, <<"data", 247>>, <<"cmd", 32>>, <<"wait">>,
              <<"cmd", 16>>, <<"data", 1>> >>

\* C14: when a parseSerialData call starts with a DIMG frame that is accepted
\* with a payload of the right size, the hardware operations of the call
\* start with the panel operations of that image in the order reset, wait,
\* init commands, image bytes, refresh trigger, wait, sleep, and the OK comes
\* right after the sleep command; the image buffer holds the payload and is
\* ready.  Whatever else the call does (a second frame in the same bytes)
\* comes after that OK.
C14_ImageShownInOrder ==
    [][ ( /\ pc = "parse" /\ pc' = "check"
          /\ called' # <<>> /\ called'[1] = "handleDIMG"
          /\ tx'[1].status = "OK" ) =>
            LET n == Len(DisplaySequence(imageBuffer'))
            IN  /\ Len(hw') >= n + 1
                /\ SubSeq(hw', 1, n) = DisplaySequence(imageBuffer')
                /\ hw'[n + 1] = <<"serial", "OK">>
                /\ \A i \in (n + 2)..Len(hw') : hw'[i][1] = "serial"
                /\ bufferReady'
                /\ epdSleeping'
                /\ tx'[1].msg = <<"Image displayed">>
                /\ frames' = 1 =>
                      /\ imageBuffer' = lastFrame'.data
                      /\ Len(hw') = n + 1
                      /\ Len(tx') = 1 ]_vars

\* An image frame and a ping behind it have been handled in one call: the
\* image is in the buffer and the panel sleeps.
C14_Witness ==
    /\ pc = "check"
    /\ frames = 2
    /\ called = <<"handleDIMG", "handleSPING">>
    /\ Len(tx) = 2
    /\ imageBuffer = [k \in 1..IMAGE_BUFFER_SIZE |-> 0]
    /\ bufferReady
    /\ epdSleeping

\* Index of the last panel command in a log of hardware operations, 0 when
\* there is none.
LastPanelCommand(log) ==
    IF \E i \in 1..Len(log) : log[i][1] = "cmd"
    THEN CHOOSE i \in 1..Len(log) :
            log[i][1] = "cmd" /\ \A j \in (i + 1)..Len(log) : log[j][1] # "cmd"
    ELSE 0

\* C15: after an accepted DCLEAR the buffer is blank (0xFF), the cursor 0 and
\* ready false, the panel has gone through the operations of a blank image,
\* and the last panel command before the OK is the sleep command 0x10, which
\* leaves the panel asleep.
C15_ClearEndsAsleep ==
    ( /\ pc = "check"
      /\ frames = 1
      /\ lastFrame.name = DCLEAR
      /\ ~CrcRejected(lastFrame) )
    => ( /\ imageBuffer = BlankImage
         /\ bufferIndex = 0
         /\ ~bufferReady
         /\ Reply.status = "OK"
         /\ hw = DisplaySequence(BlankImage) \o << <<"serial", "OK">> >>
         /\ LastPanelCommand(hw) > 0
         /\ hw[LastPanelCommand(hw)] = <<"cmd", 16>>
         /\ epdSleeping )

\* What a handler call changed apart from what it wrote to the serial link.
SilentlyEqual(after, before) ==
    [after EXCEPT !.tx = before.tx, !.hw = before.hw,
                  !.called = before.called] = before

\* C16: DSTATUS and SPING only read.  A parseSerialData step that accepts one
\* of them writes one OK (for DSTATUS with the cursor and the ready flag as
\* they are, for SPING "pong"), its only hardware operation is that serial
\* write, and motor state, image buffer, cursor, ready flag and panel are
\* what they were, as is the parser state when the frame found the parser at
\* rest; and in every state the two handlers change nothing but the serial
\* output.
C16_StatusAndPingReadOnly ==
    [][ /\ ( FrameAccepted /\ lastFrame'.name \in {DSTATUS, SPING} ) =>
              /\ tx' = << [status |-> "OK",
                           msg |-> IF lastFrame'.name = DSTATUS
                                   THEN <<"Buffer:%d Ready:%d", bufferIndex,
                                          IF bufferReady THEN 1 ELSE 0>>
                                   ELSE <<"pong">>] >>
              /\ hw' = << <<"serial", "OK">> >>
              /\ UNCHANGED MotorVars
              /\ UNCHANGED DisplayVars
              /\ (cmdIndex = 0 /\ ~receivingData) => UNCHANGED ParserVars
              /\ power' = "on"
        /\ SilentlyEqual(handleDSTATUS(Dev), Dev)
        /\ SilentlyEqual(handleSPING(Dev), Dev) ]_vars

\* DSTATUS has been answered while the motors were running and an image was
\* in the buffer.
C16_Witness ==
    /\ pc = "check"
    /\ frames = 1
    /\ lastFrame.name = DSTATUS
    /\ ~CrcRejected(lastFrame)
    /\ Reply.status = "OK"
    /\ Reply.msg[1] = "Buffer:%d Ready:%d"
    /\ motorsRunning
    /\ bufferReady

\* C17: the ready flag is set only when the cursor stands at the capacity of
\* the buffer; a clear or a reset leaves ready false and the cursor at 0; and
\* a DSTATUS answered while an image is ready reports the capacity as cursor.
C17_ReadyMeansFull ==
    /\ bufferReady => bufferIndex = IMAGE_BUFFER_SIZE
    /\ ( /\ pc = "check" /\ frames = 1
         /\ lastFrame.name \in {DCLEAR, SRESET}
         /\ ~CrcRejected(lastFrame) )
       => ( ~bufferReady /\ bufferIndex = 0 )
    /\ ( /\ pc = "check" /\ frames = 1
         /\ lastFrame.name = DSTATUS
         /\ ~CrcRejected(lastFrame)
         /\ bufferReady )
       => Reply.msg = <<"Buffer:%d Ready:%d", IMAGE_BUFFER_SIZE, 1>>

\* C18: the responses written in an iteration of loop() are as many as the
\* frames that reached processCommand in it, each an OK or an ERR; a frame
\* whose checksum field does not give the CRC of its payload gets the
\* mismatch ERR and no handler, any other frame the one response of the
\* dispatcher.
C18_OneResponsePerFrame ==
    /\ Len(tx) = frames
    /\ \A i \in 1..Len(tx) : tx[i].status \in {"OK", "ERR"}
    /\ ( pc = "check" /\ frames = 1 ) =>
          IF calculateCRC(lastFrame.data, Len(lastFrame.data))
                # strtol16(lastFrame.crc)
          THEN tx[1].status = "ERR" /\ tx[1].msg[1] = CrcMismatchText
                                    /\ called = <<>>
          ELSE tx[1].msg[1] # CrcMismatchText /\ Len(called) <= 1

\* A frame has been turned away by the checksum test with one response.
C18_Witness ==
    /\ pc = "check"
    /\ frames = 1
    /\ CrcRejected(lastFrame)
    /\ calculateCRC(lastFrame.data, Len(lastFrame.data)) # strtol16(lastFrame.crc)
    /\ Len(tx) = 1

\* Index of the first newline of the bytes b, 0 when there is none.
FirstNewline(b) ==
    IF \E n \in 1..Len(b) : b[n] = NL
    THEN CHOOSE n \in 1..Len(b) : b[n] = NL /\ \A k \in 1..(n - 1) : b[k] # NL
    ELSE 0

\* The parser is at the start of a header and the bytes it is about to read
\* begin with a line that holds no decimal digit.
DigitlessHeaderAhead ==
    /\ pc = "parse"
    /\ ~receivingData /\ cmdIndex = 0
    /\ FirstNewline(rx) > 0
    /\ \A k \in 1..(FirstNewline(rx) - 1) : ~isdigit(rx[k])

\* C19: a header line without a decimal digit is dropped without a trace.  A
\* parseSerialData call that starts with such a line ends in the state the
\* call would end in had the line not been there: when nothing follows the
\* line there is no response, no handler, no hardware operation, and the
\* parser is in the header phase with an empty command buffer; when a frame
\* follows, its header is read as a fresh header.
C19_DigitlessHeaderDropped ==
    [][ ( DigitlessHeaderAhead /\ pc' = "check" ) =>
            LET rest == SubSeq(rx, FirstNewline(rx) + 1, Len(rx))
            IN  /\ parseSerialData(Dev)
                    = parseSerialData([Dev EXCEPT !.rx = rest])
                /\ rest = <<>> =>
                      /\ tx' = <<>> /\ called' = <<>> /\ hw' = <<>>
                      /\ frames' = 0
                      /\ ~receivingData'
                      /\ cmdIndex' = 0 /\ cmdBuffer' = <<>>
                      /\ UNCHANGED MotorVars
                      /\ UNCHANGED DisplayVars
                      /\ UNCHANGED lastFrame ]_vars

\* The bytes "PING", newline and a well-formed SPING frame have been read in
\* one call, and the frame has been answered with pong.
C19_Witness ==
    /\ pc = "check"
    /\ sent = NoSent
    /\ rx = <<>>
    /\ frames = 1
    /\ lastFrame.name = SPING
    /\ tx = << [status |-> "OK", msg |-> <<"pong">>] >>
    /\ ~receivingData /\ cmdIndex = 0

\* C20: the write positions stay inside the buffers: the header index never
\* exceeds the last position of cmdBuffer that leaves room for the
\* terminator, and the payload index never exceeds MAX_COMMAND_SIZE, whatever
\* length the header declares.
C20_BufferBounds ==
    /\ cmdIndex <= CMD_BUFFER_SIZE - 1
    /\ Len(cmdBuffer) <= CMD_BUFFER_SIZE - 1
    /\ dataIndex <= MAX_COMMAND_SIZE
    /\ power # "fault"

\* The parser is in the header phase with an empty command buffer.
ParserAtRest ==
    /\ ~receivingData
    /\ cmdIndex = 0 /\ cmdBuffer = <<>>
    /\ dataIndex = 0 /\ expectedDataLength = 0

\* The header line at the head of the bytes b, without its newline.
HeaderLine(b) == SubSeq(b, 1, FirstNewline(b) - 1)

\* The header line ahead has more characters than cmdBuffer can hold.
HeaderTooLong ==
    FirstNewline(rx) > 0 /\ Len(HeaderLine(rx)) > CMD_BUFFER_SIZE - 1

\* The header line ahead fits cmdBuffer and declares more payload bytes than
\* dataBuffer holds.
DeclaresTooMuch ==
    /\ FirstNewline(rx) > 0
    /\ Len(HeaderLine(rx)) <= CMD_BUFFER_SIZE - 1
    /\ FirstDigit(HeaderLine(rx)) > 0
    /\ atoi(SubSeq(HeaderLine(rx), FirstDigit(HeaderLine(rx)),
                   Len(HeaderLine(rx)))) > MAX_COMMAND_SIZE

\* C21: a parseSerialData call that finds the parser at rest and starts with
\* a header line longer than cmdBuffer, or with a header that declares more
\* than MAX_COMMAND_SIZE payload bytes, dispatches nothing, writes past no
\* buffer, and ends with the parser in the header phase.
C21_OversizeFrameDropped ==
    [][ ( /\ pc = "parse" /\ pc' = "check"
          /\ ParserAtRest
          /\ HeaderTooLong \/ DeclaresTooMuch ) =>
            /\ frames' = 0
            /\ called' = <<>>
            /\ ~receivingData'
            /\ power' = "on" ]_vars

\* What a parseSerialData call did with a frame: the name, payload and
\* checksum field handed to processCommand, the handler entered, and the
\* parser state it left.
Parsed(t) ==
    [ name |-> t.lastFrame.name, data |-> t.lastFrame.data,
      crc |-> t.lastFrame.crc, called |-> t.called, frames |-> t.frames,
      receivingData |-> t.receivingData, cmdIndex |-> t.cmdIndex,
      dataIndex |-> t.dataIndex, expectedDataLength |-> t.expectedDataLength ]

\* The device with the bytes b in its receive buffer at the start of an
\* iteration of loop().
Receiving(s, b) ==
    [s EXCEPT !.rx = b, !.tx = <<>>, !.called = <<>>, !.hw = <<>>, !.frames = 0]

\* C22: a frame error stays with its frame.  Once a frame has been handled,
\* whether it was turned away for its checksum, its name or its length or was
\* carried out, a well-formed or corrupted frame the host writes next is
\* parsed and dispatched as it is from the boot state, and leaves the parser
\* as it leaves it from the boot state.
C22_FrameErrorsAreLocal ==
    [][ ( /\ pc = "parse" /\ pc' = "check"
          /\ lastFrame.seen
          /\ sent.seen
          /\ rx = FrameBytes(sent) )
        => Parsed(Dev') = Parsed(parseSerialData(Receiving(Boot, rx))) ]_vars

\* Payload length the header line ahead declares.
DeclaredLength ==
    atoi(SubSeq(HeaderLine(rx), FirstDigit(HeaderLine(rx)), Len(HeaderLine(rx))))

\* The bytes ahead are a header that fits cmdBuffer and declares a length,
\* the declared number of payload bytes, and then a byte that is not the
\* payload terminator: the frame carries more payload than it declares.
ExtraPayloadAhead ==
    /\ FirstNewline(rx) > 0
    /\ Len(HeaderLine(rx)) <= CMD_BUFFER_SIZE - 1
    /\ FirstDigit(HeaderLine(rx)) > 0
    /\ DeclaredLength <= MAX_COMMAND_SIZE
    /\ Len(rx) > FirstNewline(rx) + DeclaredLength
    /\ rx[FirstNewline(rx) + DeclaredLength + 1] # NL

\* C23: a frame that carries more payload bytes before its terminator than
\* its header declares is not dispatched: the parseSerialData call that reads
\* it from a parser at rest enters no handler.
C23_LengthMustMatchPayload ==
    [][ ( /\ pc = "parse" /\ pc' = "check"
          /\ ParserAtRest
          /\ ExtraPayloadAhead )
        => called' = <<>> ]_vars

\* The commands that take no payload.
ZeroPayloadNames == {MSTOP, DCLEAR, DSTATUS, SRESET, SHALT, SPING}

\* The handler processCommand calls for a name without payload.
HandlerOf(name) ==
    IF name = MSTOP THEN "handleMSTOP"
    ELSE IF name = DCLEAR THEN "handleDCLEAR"
    ELSE IF name = DSTATUS THEN "handleDSTATUS"
    ELSE IF name = SRESET THEN "handleSRESET"
    ELSE IF name = SHALT THEN "handleSHALT"
    ELSE "handleSPING"

C25_ReadmeClearExampleAccepted ==
    [][ ( /\ pc = "parse" /\ pc' = "check"
          /\ ParserAtRest
          /\ power = "on"
          /\ rx = DCLEAR \o <<48, NL, NL, 48, 48, 48, 48, NL>> )
        =>  /\ called' = <<"handleDCLEAR">>
            /\ Len(tx') = 1
            /\ tx'[1].status = "OK"
            /\ imageBuffer' = BlankImage
            /\ bufferIndex' = 0
            /\ ~bufferReady'
            /\ \E i \in 1..Len(hw') : hw'[i] = <<"reset">> ]_vars

\* The four PWM writes of stopMotors.
StopWrites ==
    << <<"ledc", MOTOR_A1, 0>>, <<"ledc", MOTOR_A2, 0>>,
       <<"ledc", MOTOR_B1, 0>>, <<"ledc", MOTOR_B2, 0>> >>

\* C26: an accepted SRESET sets the four duties to 0, then writes the OK,
\* then restarts, in this order and with nothing else in between; when the
\* device runs again the motors are idle (running false, no deadline) and the
\* image buffer is blank with cursor 0 and ready false.
C26_ResetStopsAnswersRestarts ==
    [][ ( FrameAccepted /\ lastFrame'.name = SRESET ) =>
            /\ hw' = StopWrites \o << <<"serial", "OK">>, <<"restart">> >>
            /\ tx' = << [status |-> "OK", msg |-> <<"System reset">>] >>
            /\ \A p \in MotorPins : ledc'[p] = 0
            /\ ~motorsRunning' /\ motorStopTime' = 0
            /\ imageBuffer' = BlankImage
            /\ bufferIndex' = 0 /\ ~bufferReady'
            /\ power' = "on" ]_vars

\* An SRESET has been carried out on a device whose motors were running.
C26_Witness ==
    /\ pc = "check"
    /\ frames = 1
    /\ lastFrame.name = SRESET
    /\ ~CrcRejected(lastFrame)
    /\ lastFrame.ran
    /\ hw[Len(hw)] = <<"restart">>
    /\ Idle

\* C27: an accepted SHALT sets the four duties to 0, then writes the OK, then
\* enters deep sleep, whatever the motors were doing before; and once the
\* device is asleep no step parses a frame, writes a response, touches the
\* hardware or the motor state, or wakes it, whatever the host writes.
C27_HaltStopsAnswersSleeps ==
    [][ /\ ( FrameAccepted /\ lastFrame'.name = SHALT ) =>
              /\ hw' = StopWrites \o << <<"serial", "OK">>, <<"sleep">> >>
              /\ tx' = << [status |-> "OK", msg |-> <<"Entering deep sleep">>] >>
              /\ \A p \in MotorPins : ledc'[p] = 0
              /\ ~motorsRunning' /\ motorStopTime' = 0
              /\ power' = "sleep"
        /\ power = "sleep" =>
              /\ power' = "sleep"
              /\ tx' = tx /\ hw' = hw /\ called' = called
              /\ frames' = frames /\ lastFrame' = lastFrame
              /\ pc' = pc
              /\ UNCHANGED MotorVars
              /\ UNCHANGED ParserVars ]_vars

\* The host has written a frame to a device that SHALT put to sleep while its
\* motors were running.
C27_Witness ==
    /\ power = "sleep"
    /\ rx # <<>>
    /\ lastFrame.name = SHALT
    /\ lastFrame.ran
    /\ hw[Len(hw)] = <<"sleep">>
    /\ Idle

\* The motors run under a deadline that the clock has reached.
DeadlineReached == motorsRunning /\ motorStopTime > 0 /\ now >= motorStopTime

\* C28: an iteration of loop() goes parse, check, pause in this order.  The
\* parse step leaves no byte in the receive buffer of a device that is still
\* running, and it is the only step that dispatches a frame; the check step
\* follows it whether or not a frame was dispatched, sees the motor state the
\* parse step left, stops the motors when their deadline is reached and leaves
\* them alone otherwise; the pause changes no motor state.
C28_DrainThenCheck ==
    [][ /\ ( pc = "parse" /\ pc' # pc ) =>
              /\ pc' = "check"
              /\ power' = "on" => rx' = <<>>
        /\ frames' # frames => ( pc = "parse" /\ pc' = "check" ) \/ frames' = 0
        /\ ( pc = "check" /\ power = "on" ) =>
              /\ pc' = "delay"
              /\ frames' = frames /\ tx' = tx
              /\ IF DeadlineReached
                 THEN /\ hw' = hw \o StopWrites
                      /\ \A p \in MotorPins : ledc'[p] = 0
                      /\ ~motorsRunning' /\ motorStopTime' = 0
                 ELSE hw' = hw /\ UNCHANGED MotorVars
        /\ ( pc = "delay" /\ pc' # pc ) =>
              /\ pc' = "parse"
              /\ UNCHANGED MotorVars ]_vars

\* The check of an iteration in which no frame arrived has stopped the motors
\* of a timed MVEL.
C28_Witness ==
    /\ pc = "delay"
    /\ frames = 0
    /\ AcceptedMvel
    /\ hw = StopWrites
    /\ Idle

DisplayHandlers == {"handleDIMG", "handleDCLEAR"}

\* What the firmware does to the panel, as the hardware log names it.
PanelOps == {"reset", "wait", "cmd", "data"}

\* Index of the first line written to the serial link in a hardware log, one
\* past its end when there is none.
FirstSerial(log) ==
    IF \E i \in 1..Len(log) : log[i][1] = "serial"
    THEN CHOOSE i \in 1..Len(log) :
            log[i][1] = "serial" /\ \A j \in 1..(i - 1) : log[j][1] # "serial"
    ELSE Len(log) + 1

\* This parseSerialData call dispatches a display command that refreshes the
\* panel.
RefreshRan ==
    /\ pc = "parse" /\ pc' = "check"
    /\ called' # <<>> /\ called'[1] \in DisplayHandlers
    /\ hw' # <<>> /\ hw'[1] = <<"reset">>

\* C29: from the start of a refresh to the response of the display command
\* the firmware does nothing but drive the panel: no duty is written, no
\* other handler is called, no other response is written, however far the
\* clock passes a motor deadline meanwhile.  A frame that arrives during the
\* refresh is handled after the display command's response.  If none does,
\* the motor state after the parseSerialData call is the one before it; and
\* the timeout check that follows the call stops a motion whose deadline has
\* been reached.
C29_RefreshHoldsTimeout ==
    [][ /\ RefreshRan =>
              /\ \A i \in 1..(FirstSerial(hw') - 1) : hw'[i][1] \in PanelOps
              /\ Len(called') = frames'
              /\ frames' = 1 => UNCHANGED MotorVars
              /\ power' = "on" =>
                    /\ Len(tx') = frames'
                    /\ tx'[1].status = "OK"
                    /\ rx' = <<>>
        /\ ( pc = "check" /\ power = "on" /\ DeadlineReached ) =>
              /\ pc' = "delay"
              /\ \A p \in MotorPins : ledc'[p] = 0
              /\ ~motorsRunning' /\ motorStopTime' = 0 ]_vars

\* A refresh has returned, no other frame was handled, and the motors still run
\* a motion that started before its deadline and whose deadline the clock has
\* passed since.
C29_Witness ==
    /\ pc = "check"
    /\ power = "on"
    /\ called = <<"handleDIMG">>
    /\ frames = 1
    /\ DeadlineReached
    /\ lastFrame.ran
    /\ lastFrame.at < motorStopTime
    /\ \E p \in MotorPins : ledc[p] # 0

\* The receive buffer holds one well-formed DIMG or DCLEAR frame, and the
\* parser is at rest.
DisplayFrameAhead ==
    /\ pc = "parse" /\ power = "on"
    /\ ParserAtRest
    /\ sent.seen /\ sent.name \in {DIMG, DCLEAR}
    /\ rx = FrameBytes(sent)

DisplayDone == IF sent.name = DIMG THEN "Image displayed" ELSE "Display cleared"

C31_AbsentBufferUntouched ==
    imageBuffer = nullptr =>
        /\ power = "on"
        /\ \A i \in 1..Len(hw) : hw[i] # <<"null">>

\* The image buffer: contents, cursor and ready flag.
BufferVars == <<imageBuffer, bufferIndex, bufferReady>>

\* This parseSerialData call handed exactly one frame to processCommand, and
\* the frame was answered with the given status.
Answered(status) ==
    /\ pc = "parse" /\ pc' = "check"
    /\ frames' = 1
    /\ lastFrame'.resp # <<>>
    /\ lastFrame'.resp[1].status = status

\* The same, for a frame under one of the given names.
Handled(names, status) == Answered(status) /\ lastFrame'.name \in names

\* C32: an MVEL or MSTOP that is answered OK, and the timeout check, leave the
\* image buffer, its cursor and its ready flag as they were; a DIMG, DCLEAR,
\* DSTATUS or SPING that is answered OK, and every frame that is answered ERR,
\* leave the duties, the running flag and the deadline as they were; a frame
\* answered ERR leaves the buffer as it was, too; and a step that changes both
\* the motor state and the buffer has called handleSRESET.
C32_MotorsAndBufferIndependent ==
    [][ /\ Handled({MVEL, MSTOP}, "OK") => UNCHANGED BufferVars
        /\ pc = "check" => UNCHANGED BufferVars
        /\ Handled({DIMG, DCLEAR, DSTATUS, SPING}, "OK") => UNCHANGED MotorVars
        /\ Answered("ERR") => UNCHANGED MotorVars /\ UNCHANGED BufferVars
        /\ ( MotorVars' # MotorVars /\ BufferVars' # BufferVars ) =>
              \E i \in 1..Len(called') : called'[i] = "handleSRESET" ]_vars

\* An MVEL has been accepted on a device that holds an image, and the image is
\* still there while the motors run.
C32_Witness ==
    /\ pc = "check"
    /\ frames = 1
    /\ AcceptedMvel
    /\ motorsRunning
    /\ bufferReady
    /\ imageBuffer # BlankImage

\* The frame the host wrote carries the checksum of its payload.
SentWellFormed == sent.seen /\ sent.crc = calculate_crc(sent.data)

\* C33: whichever way the bytes of a well-formed frame are spread over the
\* iterations of loop(), the frame that reaches processCommand under the name and with the
\* payload the host wrote carries the checksum field the host wrote; and once
\* all the bytes have been read, the parser is back at rest with an empty
\* header line, none of the checksum characters taken for a header.
C33_DeliveryIndependent ==
    [][ /\ ( /\ pc = "parse" /\ pc' = "check"
             /\ frames' = 1
             /\ SentWellFormed
             /\ lastFrame'.name = sent.name
             /\ lastFrame'.data = sent.data )
           => lastFrame'.crc = sent.crc
        /\ ( /\ pc = "parse" /\ pc' = "check"
             /\ SentWellFormed /\ ParserAtRest
             /\ rx \o wire = FrameBytes(sent)
             /\ power' = "on" /\ wire = <<>> )
           => ParserAtRest' ]_vars

\* The parser waits for payload bytes of a frame, and has done so through a
\* stall of loop() longer than CMD_TIMEOUT_MS (the clock is followed past
\* MaxTime only through such a stall, after which no further pause is taken).
TruncatedAndSilent ==
    /\ receivingData
    /\ dataIndex < expectedDataLength
    /\ now > MaxTime + CMD_TIMEOUT_MS

\* C34: when the host writes a well-formed frame after a frame it left
\* unfinished more than CMD_TIMEOUT_MS ago, the parser has given up the
\* unfinished frame: the new frame reaches processCommand under its own name
\* and passes the checksum test.
C34_TruncatedFrameAbandoned ==
    [][ ( /\ pc = "parse" /\ pc' = "check"
          /\ TruncatedAndSilent
          /\ SentWellFormed
          /\ rx = FrameBytes(sent) )
        => ( /\ frames' = 1
             /\ lastFrame'.name = sent.name
             /\ ~CrcRejected(lastFrame') ) ]_vars

\* The duty of pin p after the first k hardware operations of this step, which
\* starts from the duties ledc and adds its operations to the log hw.
DutyAfter(p, k) ==
    LET writes == { i \in (Len(hw) + 1)..(Len(hw) + k) :
                        hw'[i][1] = "ledc" /\ hw'[i][2] = p }
    IN  IF writes = {} THEN ledc[p]
        ELSE hw'[CHOOSE i \in writes : \A j \in writes : j <= i][3]

\* At most one direction pin of each motor carries a duty.
OnePinPerMotor(duty) ==
    /\ duty[MOTOR_A1] = 0 \/ duty[MOTOR_A2] = 0
    /\ duty[MOTOR_B1] = 0 \/ duty[MOTOR_B2] = 0

\* C35: after every write to a PWM channel each motor has at most one of its
\* two pins at a non-zero duty and every duty is within 0..255; and once an
\* MVEL has been carried out, a speed that is not negative is the duty of the
\* first pin and a negative one, by its magnitude, the duty of the second.
C35_PinsExclusive ==
    [][ /\ ( Len(hw') >= Len(hw) /\ SubSeq(hw', 1, Len(hw)) = hw ) =>
              \A k \in 0..(Len(hw') - Len(hw)) :
                  /\ OnePinPerMotor([p \in MotorPins |-> DutyAfter(p, k)])
                  /\ \A p \in MotorPins : DutyAfter(p, k) \in 0..255
        /\ ( FrameAccepted /\ AcceptedMvel' ) => DutiesOfFrame' ]_vars

\* The states of the motor controller.
TIMED_RUN == motorsRunning /\ motorStopTime > 0

INDEFINITE_RUN == motorsRunning /\ motorStopTime = 0

\* C36: whenever loop() or a handler looks at the motor flags, a deadline is
\* set only while running is true, and running is false only while the four
\* duties are 0: the state is IDLE, TIMED_RUN or INDEFINITE_RUN, and only one
\* of them.
C36_MotorFlagsLegal ==
    /\ motorStopTime > 0 => motorsRunning
    /\ ~motorsRunning => \A p \in MotorPins : ledc[p] = 0
    /\ Idle \/ TIMED_RUN \/ INDEFINITE_RUN
    /\ ~(Idle /\ TIMED_RUN) /\ ~(Idle /\ INDEFINITE_RUN)
    /\ ~(TIMED_RUN /\ INDEFINITE_RUN)

\* A timed MVEL with both speeds 0 has been carried out: the motors count as
\* running under a deadline while every duty is 0.
C36_Witness ==
    /\ AcceptedMvel
    /\ TIMED_RUN
    /\ \A p \in MotorPins : ledc[p] = 0

\* The last frame reached processCommand in the last WrapMargin milliseconds
\* before the clock wraps, so that less than one turn of the clock has passed
\* since.
AcceptedNearWrap == lastFrame.at >= ClockMod - WrapMargin

\* C37: when a well-formed MVEL with a duration above zero and a non-zero speed
\* has been accepted shortly before the clock wraps around, then after each timeout
\* check the motors still run at the commanded duties while less than the
\* duration has passed since the command, and are stopped once the duration
\* has passed.
C37_DeadlineAcrossWrap ==
    ( /\ pc = "delay"
      /\ AcceptedMvel
      /\ lastFrame.crc = calculate_crc(lastFrame.data)
      /\ AcceptedNearWrap
      /\ FrameDuration > 0
      /\ (FrameLeft # 0 \/ FrameRight # 0) )
        => IF Elapsed < FrameDuration
           THEN motorsRunning /\ DutiesOfFrame
           ELSE Idle

\* C38: with the clock away from its wrap, an accepted MVEL of six bytes
\* leaves the deadline its own duration asks for, whatever motion was under
\* way: none when the duration is 0, so that the deadline of an earlier timed
\* run is gone and no later check stops the motors for it, and the time of the
\* command plus the duration when that is above 0.
C38_LatestMvelSetsDeadline ==
    [][ /\ ( /\ FrameAccepted /\ AcceptedMvel'
             /\ now + FrameDuration' < ClockMod )
           => /\ motorStopTime' = IF FrameDuration' = 0 THEN 0
                                  ELSE now + FrameDuration'
              /\ FrameDuration' > 0 => motorsRunning'
        /\ ( /\ pc = "check"
             /\ AcceptedMvel /\ FrameDuration = 0
             /\ motorsRunning )
           => UNCHANGED MotorVars ]_vars

\* An MVEL without a duration has replaced a timed run, and the clock has
\* passed the deadline the timed run had: the motors still run.
C38_Witness ==
    /\ pc = "delay"
    /\ AcceptedMvel
    /\ FrameDuration = 0
    /\ lastFrame.ran /\ lastFrame.timed
    /\ motorsRunning /\ motorStopTime = 0
    /\ now > CMD_TIMEOUT_MS

\* Bytes of the chunk that a receive call takes: as many as there is room for.
Taken == min(Len(chunk'), IMAGE_BUFFER_SIZE - bufferIndex)

\* C39: an ImageBuffer_Receive call on an allocated buffer moves the cursor
\* forward by min(len, capacity - cursor) and never past the capacity, stores
\* that many bytes of the chunk from the old cursor on, leaves every other
\* byte of the buffer as it was, drops the rest of the chunk, and leaves
\* ready true exactly when the cursor is at the capacity.
C39_ReceiveFillsToCapacity ==
    [][ ( pc' = "receive" /\ imageBuffer # nullptr ) =>
            /\ bufferIndex' = bufferIndex + Taken
            /\ bufferIndex' >= bufferIndex
            /\ bufferIndex' <= IMAGE_BUFFER_SIZE
            /\ Len(imageBuffer') = IMAGE_BUFFER_SIZE
            /\ \A k \in 1..IMAGE_BUFFER_SIZE :
                  imageBuffer'[k] =
                      IF k > bufferIndex /\ k <= bufferIndex + Taken
                      THEN chunk'[k - bufferIndex]
                      ELSE imageBuffer[k]
            /\ bufferReady' <=> (bufferIndex' = IMAGE_BUFFER_SIZE) ]_vars

\* A chunk longer than the buffer has been received behind a byte that was
\* there before: the buffer is full, the earlier byte is in place, and the
\* end of the chunk was dropped.
C39_Witness ==
    /\ pc = "receive"
    /\ bufferReady
    /\ bufferIndex = IMAGE_BUFFER_SIZE
    /\ Len(chunk) = IMAGE_BUFFER_SIZE + 1
    /\ imageBuffer[1] # chunk[1]
    /\ imageBuffer[2] = chunk[1]

=============================================================================
